---- MODULE Spec2Model ----
(***************************************************************************)
(* Model of the Copperx Telegram bot: the session middleware               *)
(* (src/middleware/session.ts), the conversation router (index.ts), the    *)
(* Payments API client as seen by the router (services/copperx-api.ts) and *)
(* the notification relay (services/notifications.ts).                     *)
(*                                                                         *)
(* Texts are tuples of one-character strings, so that trim, includes,      *)
(* startsWith, the one-time-code pattern and parseFloat are computed from  *)
(* the characters.  Numbers are IEEE-754 doubles: a 53-bit mantissa kept   *)
(* as a tuple of bits (most significant first) and a binary exponent.      *)
(***************************************************************************)
EXTENDS Integers, Sequences, FiniteSets, TLC

(***************************************************************************)
(* Part 1.  Characters and texts                                           *)
(***************************************************************************)
DigitChars == {"0", "1", "2", "3", "4", "5", "6", "7", "8", "9"}

DigitVal(c) ==
  CASE c = "0" -> 0 [] c = "1" -> 1 [] c = "2" -> 2 [] c = "3" -> 3
    [] c = "4" -> 4 [] c = "5" -> 5 [] c = "6" -> 6 [] c = "7" -> 7
    [] c = "8" -> 8 [] c = "9" -> 9

DigitChar(d) ==
  CASE d = 0 -> "0" [] d = 1 -> "1" [] d = 2 -> "2" [] d = 3 -> "3"
    [] d = 4 -> "4" [] d = 5 -> "5" [] d = 6 -> "6" [] d = 7 -> "7"
    [] d = 8 -> "8" [] d = 9 -> "9"

WhiteSpace == {" ", "\t", "\n"}

RECURSIVE TrimStart(_)
TrimStart(t) ==
  IF Len(t) > 0 /\ t[1] \in WhiteSpace THEN TrimStart(Tail(t)) ELSE t

RECURSIVE TrimEnd(_)
TrimEnd(t) ==
  IF Len(t) > 0 /\ t[Len(t)] \in WhiteSpace
    THEN TrimEnd(SubSeq(t, 1, Len(t) - 1))
    ELSE t

\* String.prototype.trim
Trim(t) == TrimEnd(TrimStart(t))

\* String.prototype.includes, for a one-character needle
Includes(t, c) == \E i \in 1..Len(t) : t[i] = c

\* String.prototype.startsWith
StartsWith(t, p) ==
  /\ Len(t) >= Len(p)
  /\ \A i \in 1..Len(p) : t[i] = p[i]

IsSixDigits_AnyLength(t) == \A i \in 1..Len(t) : t[i] \in DigitChars

\* /^\d{6}$/.test(otp)
IsSixDigits(t) == Len(t) = 6 /\ \A i \in 1..6 : t[i] \in DigitChars

\* the shape test used for every e-mail address
LooksLikeEmail(t) == Includes(t, "@") /\ Includes(t, ".")

\* address.startsWith('0x') && address.length === 42
IsValidAddress(t) == StartsWith(t, <<"0", "x">>) /\ Len(t) = 42

(***************************************************************************)
(* Part 2.  Unsigned integers of any size, as tuples of bits (most         *)
(* significant first, no leading zero; the empty tuple is 0).  The         *)
(* arithmetic runs on 12-bit limbs so that no intermediate value leaves    *)
(* the 32-bit integers.                                                    *)
(***************************************************************************)
LimbBase == 4096

\* The value of the one element of S.  An operator's argument and a LET
\* definition stand for expressions, evaluated wherever they are used; x in
\* { e : x \in {v} } stands for the value of v, evaluated once.
Once(S) == CHOOSE r \in S : TRUE

MinOf(S) == CHOOSE i \in S : \A j \in S : i <= j
MaxOf(S) == CHOOSE i \in S : \A j \in S : i >= j

StripZeros(b0) ==
  Once({ IF \A i \in 1..Len(b) : b[i] = 0 THEN <<>>
         ELSE SubSeq(b, MinOf({i \in 1..Len(b) : b[i] = 1}), Len(b))
         : b \in {b0} })

Pow2(n) ==
  CASE n = 0 -> 1 [] n = 1 -> 2 [] n = 2 -> 4 [] n = 3 -> 8 [] n = 4 -> 16
    [] n = 5 -> 32 [] n = 6 -> 64 [] n = 7 -> 128 [] n = 8 -> 256
    [] n = 9 -> 512 [] n = 10 -> 1024 [] n = 11 -> 2048 [] n = 12 -> 4096
    [] n = 13 -> 8192 [] n = 14 -> 16384 [] n = 15 -> 32768
    [] n = 16 -> 65536 [] n = 17 -> 131072 [] n = 18 -> 262144
    [] n = 19 -> 524288 [] n = 20 -> 1048576 [] n = 21 -> 2097152
    [] n = 22 -> 4194304 [] n = 23 -> 8388608 [] n = 24 -> 16777216
    [] n = 25 -> 33554432 [] n = 26 -> 67108864 [] n = 27 -> 134217728
    [] n = 28 -> 268435456 [] n = 29 -> 536870912 [] n = 30 -> 1073741824

Pow5(n) ==
  CASE n = 0 -> 1 [] n = 1 -> 5 [] n = 2 -> 25 [] n = 3 -> 125
    [] n = 4 -> 625 [] n = 5 -> 3125 [] n = 6 -> 15625 [] n = 7 -> 78125

Pow10(n) ==
  CASE n = 0 -> 1 [] n = 1 -> 10 [] n = 2 -> 100 [] n = 3 -> 1000
    [] n = 4 -> 10000 [] n = 5 -> 100000

\* the bits of a non-negative 32-bit integer
NatBits(n0) ==
  Once({ [i \in 1..len |-> (n \div Pow2(len - i)) % 2]
         : n \in {n0},
           len \in {IF n0 = 0 THEN 0
                    ELSE MinOf({l \in 1..31 : l = 31 \/ n0 < Pow2(l)})} })

Zeros(n) == [i \in 1..n |-> 0]

\* the value of the twelve bits b[from..from+11], bits before the first
\* counting as 0
ChunkVal(b, from) ==
  LET bit(p) == IF p >= 1 THEN b[p] ELSE 0
  IN  2048 * bit(from) + 1024 * bit(from + 1) + 512 * bit(from + 2)
      + 256 * bit(from + 3) + 128 * bit(from + 4) + 64 * bit(from + 5)
      + 32 * bit(from + 6) + 16 * bit(from + 7) + 8 * bit(from + 8)
      + 4 * bit(from + 9) + 2 * bit(from + 10) + bit(from + 11)

\* bits -> limbs (most significant first)
ToLimbs(b0) ==
  Once({ [j \in 1..n |-> ChunkVal(b, Len(b) - 12 * (n - j) - 11)]
         : b \in {b0}, n \in {(Len(b0) + 11) \div 12} })

\* limbs -> bits
FromLimbs(L0) ==
  Once({ StripZeros([i \in 1..(12 * Len(L)) |->
                       (L[((i - 1) \div 12) + 1]
                          \div Pow2(11 - ((i - 1) % 12))) % 2])
         : L \in {L0} })

\* L * c + a on limbs, for c and a below 2^18
RECURSIVE LimbMulAdd(_, _, _, _, _)
LimbMulAdd(L, c, i0, carry0, acc0) ==
  Once({ IF i = 0
           THEN (IF carry = 0 THEN acc
                 ELSE LimbMulAdd(L, c, 0, carry \div LimbBase,
                                 <<carry % LimbBase>> \o acc))
           ELSE LimbMulAdd(L, c, i - 1, (L[i] * c + carry) \div LimbBase,
                           <<(L[i] * c + carry) % LimbBase>> \o acc)
         : i \in {i0}, carry \in {carry0}, acc \in {acc0} })

\* b * c + a, for c and a below 2^18
BitsMulAdd(b, c0, a0) ==
  Once({ FromLimbs(LimbMulAdd(L, c, Len(L), a, <<>>))
         : L \in {ToLimbs(b)}, c \in {c0}, a \in {a0} })

\* quotient and remainder of limbs by a divisor below 2^18
RECURSIVE LimbDiv(_, _, _, _, _)
LimbDiv(L, d, i0, r0, q0) ==
  Once({ IF i > Len(L)
           THEN [q |-> q, r |-> r]
           ELSE LimbDiv(L, d, i + 1, (r * LimbBase + L[i]) % d,
                        Append(q, (r * LimbBase + L[i]) \div d))
         : i \in {i0}, r \in {r0}, q \in {q0} })

\* quotient and remainder of b by a divisor below 2^18
BitsDivSmall(b, d0) ==
  Once({ [q |-> FromLimbs(qr.q), r |-> qr.r]
         : qr \in { Once({ LimbDiv(L, d, 1, 0, <<>>)
                           : L \in {ToLimbs(b)}, d \in {d0} }) } })

\* quotient of b by 5^k, and whether the division left a remainder
RECURSIVE DivPow5(_, _)
DivPow5(b, k0) ==
  Once({ IF k <= 7
           THEN Once({ [q |-> qr.q, inexact |-> qr.r # 0]
                       : qr \in {BitsDivSmall(b, Pow5(k))} })
           ELSE Once({ Once({ [q |-> rest.q,
                               inexact |-> rest.inexact \/ qr.r # 0]
                              : rest \in {DivPow5(qr.q, k - 7)} })
                       : qr \in {BitsDivSmall(b, Pow5(7))} })
         : k \in {k0} })

\* b + 1
BitsInc(b0) ==
  Once({ IF \A i \in 1..Len(b) : b[i] = 1
           THEN <<1>> \o Zeros(Len(b))
           ELSE Once({ [i \in 1..Len(b) |->
                          IF i < p THEN b[i] ELSE IF i = p THEN 1 ELSE 0]
                       : p \in {MaxOf({i \in 1..Len(b) : b[i] = 0})} })
         : b \in {b0} })

\* -1, 0, 1 as a < b, a = b, a > b
BitsCmp(a0, b0) ==
  Once({ IF Len(a) < Len(b) THEN -1
         ELSE IF Len(a) > Len(b) THEN 1
         ELSE IF a = b THEN 0
         ELSE Once({ IF a[d] < b[d] THEN -1 ELSE 1
                     : d \in {MinOf({i \in 1..Len(a) : a[i] # b[i]})} })
         : a \in {a0}, b \in {b0} })

AnyOne(b, from) == \E i \in from..Len(b) : b[i] = 1

\* the decimal digits of b, as characters
RECURSIVE DecChars(_)
DecChars(b0) ==
  Once({ IF Len(b) = 0 THEN <<>>
         ELSE Once({ Append(DecChars(qr.q), DigitChar(qr.r))
                     : qr \in {BitsDivSmall(b, 10)} })
         : b \in {b0} })

\* the integer written by the first n of a tuple of at most nine digit
\* characters
RECURSIVE DecVal(_, _)
DecVal(ds, n) ==
  IF n = 0 THEN 0 ELSE 10 * DecVal(ds, n - 1) + DigitVal(ds[n])

DecBits(ds0) == Once({ NatBits(DecVal(ds, Len(ds))) : ds \in {ds0} })

(***************************************************************************)
(* Part 3.  IEEE-754 doubles                                               *)
(*   [cls |-> "nan"]                                                       *)
(*   [cls |-> "zero", neg]                                                 *)
(*   [cls |-> "fin", neg, man, exp]   value = man * 2^exp, Len(man) = 53   *)
(***************************************************************************)
MantBits == 53

NaN == [cls |-> "nan", neg |-> FALSE, man |-> <<>>, exp |-> 0]
Zero(neg) == [cls |-> "zero", neg |-> neg, man |-> <<>>, exp |-> 0]

\* round-to-nearest, ties-to-even, of b * 2^e (b without leading zeros,
\* sticky: a nonzero part below b was dropped already)
Round53(b0, e0, sticky0, neg0) ==
  Once({ IF Len(b) = 0 THEN Zero(neg)
         ELSE IF Len(b) <= MantBits
           THEN [cls |-> "fin", neg |-> neg,
                 man |-> b \o Zeros(MantBits - Len(b)),
                 exp |-> e - (MantBits - Len(b))]
           ELSE Once({ IF Len(inc) > MantBits
                         THEN [cls |-> "fin", neg |-> neg,
                               man |-> SubSeq(inc, 1, MantBits),
                               exp |-> e + (Len(b) - MantBits) + 1]
                         ELSE [cls |-> "fin", neg |-> neg, man |-> inc,
                               exp |-> e + (Len(b) - MantBits)]
                       : inc \in {
                           IF b[MantBits + 1] = 1
                              /\ (sticky \/ AnyOne(b, MantBits + 2)
                                  \/ b[MantBits] = 1)
                             THEN BitsInc(SubSeq(b, 1, MantBits))
                             ELSE SubSeq(b, 1, MantBits)} })
         : b \in {b0}, e \in {e0}, sticky \in {sticky0}, neg \in {neg0} })

\* the double nearest to mb / 10^k  (StringToNumber on a decimal literal)
FromDecimal(mb0, k0, neg) ==
  Once({ IF Len(mb) = 0 THEN Zero(neg)
         ELSE Once({ Round53(qr.q, 0 - (56 + 3 * k) - k, qr.inexact, neg)
                     : qr \in {DivPow5(mb \o Zeros(56 + 3 * k), k)} })
         : mb \in {mb0}, k \in {k0} })

FromInt(n) == FromDecimal(NatBits(n), 0, FALSE)

\* x * 10 ** 8: the exact product man * 10^4 * 10^4, rounded once
DoubleMulE8(x0) ==
  Once({ IF x.cls # "fin" THEN x
         ELSE Round53(BitsMulAdd(BitsMulAdd(x.man, 10000, 0), 10000, 0),
                      x.exp, FALSE, x.neg)
         : x \in {x0} })

\* x < y on doubles (false when either is NaN)
DoubleLess(x0, y0) ==
  Once({ IF x.cls = "nan" \/ y.cls = "nan" THEN FALSE
         ELSE IF x.cls = "zero" THEN y.cls = "fin" /\ ~y.neg
         ELSE IF y.cls = "zero" THEN x.neg
         ELSE IF x.neg # y.neg THEN x.neg
         ELSE IF x.neg
           THEN \/ x.exp > y.exp
                \/ x.exp = y.exp /\ BitsCmp(x.man, y.man) > 0
           ELSE \/ x.exp < y.exp
                \/ x.exp = y.exp /\ BitsCmp(x.man, y.man) < 0
         : x \in {x0}, y \in {y0} })

DoubleEq(x0, y0) ==
  Once({ IF x.cls = "nan" \/ y.cls = "nan" THEN FALSE
         ELSE IF x.cls = "zero" \/ y.cls = "zero" THEN x.cls = y.cls
         ELSE x.neg = y.neg /\ x.exp = y.exp /\ x.man = y.man
         : x \in {x0}, y \in {y0} })

DoubleLeq(x0, y0) ==
  Once({ DoubleLess(x, y) \/ DoubleEq(x, y) : x \in {x0}, y \in {y0} })

isNaN(x) == x.cls = "nan"

\* the longest run of digit characters of t from position i on
RECURSIVE DigitRun(_, _)
DigitRun(t, i) ==
  IF i <= Len(t) /\ t[i] \in DigitChars
    THEN <<t[i]>> \o DigitRun(t, i + 1)
    ELSE <<>>

\* parseFloat: leading white space is skipped, then the longest prefix that
\* is a decimal literal (sign, digits, '.', digits) is converted; NaN when
\* there is no digit.  Texts with an exponent part, spelling Infinity or
\* with more than nine digits are outside the domain of this definition.
parseFloat(t) ==
  Once({
    Once({
      Once({ IF Len(ip) = 0 /\ Len(fp) = 0
               THEN NaN
               ELSE FromDecimal(DecBits(ip \o fp), Len(fp),
                                Len(s) > 0 /\ s[1] = "-")
             : fp \in {IF Len(s) >= i0 + Len(ip) /\ s[i0 + Len(ip)] = "."
                         THEN DigitRun(s, i0 + Len(ip) + 1) ELSE <<>>} })
      : ip \in {DigitRun(s, i0)} })
    : s \in {TrimStart(t)},
      i0 \in {IF \E c \in {"+", "-"} : StartsWith(TrimStart(t), <<c>>)
                THEN 2 ELSE 1} })

\* b * 10^f
RECURSIVE MulPow10(_, _)
MulPow10(b, f0) ==
  Once({ IF f <= 5 THEN BitsMulAdd(b, Pow10(f), 0)
         ELSE MulPow10(BitsMulAdd(b, Pow10(5), 0), f - 5)
         : f \in {f0} })

\* the integer nearest to |x| * 10^f (ties to even)
ScaledInt(x0, f) ==
  Once({ IF x.exp >= 0 THEN p \o Zeros(x.exp)
         ELSE IF Len(p) < n THEN <<>>
         ELSE IF p[Len(p) - n + 1] = 1
                 /\ (AnyOne(p, Len(p) - n + 2)
                     \/ (Len(p) > n /\ p[Len(p) - n] = 1))
           THEN (IF Len(p) = n THEN <<1>>
                 ELSE BitsInc(SubSeq(p, 1, Len(p) - n)))
           ELSE SubSeq(p, 1, Len(p) - n)
         : x \in {x0}, p \in {MulPow10(x0.man, f)}, n \in {0 - x0.exp} })

MaxFrac == 12

\* the least number of fraction digits with which |x| reads back as x
ShortestFrac(x0) ==
  Once({ MinOf({f \in 0..MaxFrac :
                  \/ f = MaxFrac
                  \/ DoubleEq(FromDecimal(ScaledInt(x, f), f, x.neg), x)})
         : x \in {x0} })

RECURSIVE PadLeft(_, _)
PadLeft(ds, n) == IF Len(ds) >= n THEN ds ELSE PadLeft(<<"0">> \o ds, n)

\* Number.prototype.toString for NaN, zero and finite values written in
\* fixed notation (1e-7 <= |x| < 1e21)
NumberToString(x0) ==
  Once({ IF x.cls = "nan" THEN <<"N", "a", "N">>
         ELSE IF x.cls = "zero" THEN <<"0">>
         ELSE Once({
           Once({ (IF x.neg THEN <<"-">> ELSE <<>>)
                  \o SubSeq(ds, 1, Len(ds) - f)
                  \o (IF f = 0 THEN <<>>
                      ELSE <<".">> \o SubSeq(ds, Len(ds) - f + 1, Len(ds)))
                  : ds \in {PadLeft(DecChars(ScaledInt(x, f)), f + 1)} })
           : f \in {ShortestFrac(x)} })
         : x \in {x0} })

(***************************************************************************)
(* Part 4.  Sessions (SessionData) and the results of a handler            *)
(*                                                                         *)
(* A session is a function from the keys that are present to their values. *)
(* Free texts are tuples of characters; inline-button data and the values  *)
(* cut out of it are tuples of the words between the underscores.          *)
(***************************************************************************)
EmptySession == [f \in {} |-> TRUE]

Has(s, f) == f \in DOMAIN s

\* ctx.session.f = v / ctx.session = { ...ctx.session, f: v }
Put(s, f, v) == [g \in DOMAIN s \cup {f} |-> IF g = f THEN v ELSE s[g]]

\* delete ctx.session.f, for every f in F
Del(s, F) == [g \in DOMAIN s \ F |-> s[g]]

\* ctx.session?.f is truthy, for a boolean field
IsTrue(s, f) == Has(s, f) /\ s[f] = TRUE

TransferClearFields ==
  {"transferType", "transferStep", "transferRecipient", "transferAddress",
   "network", "commandType", "transferAmount"}

BankClearFields ==
  {"transferType", "transferStep", "transferAmount", "sourceOfFunds",
   "customerName", "customerEmail", "customerCountry"}

DepositClearFields == {"depositStep", "depositSourceOfFunds"}

\* outcomes of one request to the Payments API: success, an HTTP error
\* status, or an error without a response
ApiOutcomes == {"ok", "e401", "e422", "e429", "err"}

NoToken == "undefined"

TokenOf(s) == IF Has(s, "authToken") THEN s["authToken"] ELSE NoToken

\* one call of an API method: its arguments, its outcome, and what it
\* returned: for getWallets the balance string of the default wallet, for
\* authenticateWithOTP the token and the organization
CallRet(op, token, args, out, ret) ==
  [op |-> op, token |-> token, args |-> args, out |-> out, ret |-> ret]

Call(op, token, args, out) == CallRet(op, token, args, out, <<>>)

\* what a handler did: the session it left in ctx.session, the API methods it
\* called, the messages it got through to the chat, whether it threw
Res(s, calls, replies, threw) ==
  [s |-> s, calls |-> calls, replies |-> replies, threw |-> threw]

\* await ctx.reply(tag) as the last statement: the message is sent, or the
\* send fails and the exception leaves the handler
Reply(s, calls, replies, tag) ==
  {Res(s, calls, Append(replies, tag), FALSE), Res(s, calls, replies, TRUE)}

\* await ctx.reply(tag) followed by the assignment ctx.session = s2
ReplyThen(s, calls, replies, tag, s2) ==
  {Res(s2, calls, Append(replies, tag), FALSE), Res(s, calls, replies, TRUE)}

\* the catch block shared by the commands: a 401 empties the session
CatchExpired(s, calls, replies, out) ==
  IF out = "e401"
    THEN Reply(EmptySession, calls, replies, "session_expired")
    ELSE Reply(s, calls, replies, "failed")

\* the HTTP requests one call of an API method makes, at least and at most:
\* getWallets asks for the wallets and then, through getWalletBalances, for
\* the balances; withdrawToBank fails in JSON.parse before its request;
\* every other method makes one request
RequestRange(c) ==
  CASE c.op = "getWallets" -> IF c.out = "ok" THEN <<2, 2>> ELSE <<1, 2>>
    [] c.op = "withdrawToBank" /\ c.out = "js" -> <<0, 0>>
    [] OTHER -> <<1, 1>>

(***************************************************************************)
(* Part 5.  Commands                                                       *)
(***************************************************************************)
CmdStart(s) ==
  {Res(s, <<>>, <<"welcome_photo">>, FALSE)}
  \cup Reply(s, <<>>, <<>>, "welcome_text")

\* a /login that always starts over with a fresh session
CmdLogin_StartOver(s) ==
  ReplyThen(s, <<>>, <<>>, "enter_email", [awaitingEmail |-> TRUE])

CmdLogin(s) ==
  IF Has(s, "authToken")
    THEN Reply(s, <<>>, <<>>, "already_logged_in")
    ELSE ReplyThen(s, <<>>, <<>>, "enter_email", Put(s, "awaitingEmail", TRUE))

CmdHelp(s) ==
  {Res(s, <<>>, <<"help_html">>, FALSE)}
  \cup Reply(s, <<>>, <<>>, "help_plain")

CmdStatus(s) ==
  IF ~Has(s, "authToken")
    THEN Reply(s, <<>>, <<>>, "login_prompt")
    ELSE LET t == s["authToken"] IN
      UNION {
        LET c1 == <<Call("getUserProfile", t, <<>>, o1)>> IN
        IF o1 # "ok" THEN CatchExpired(s, c1, <<>>, o1)
        ELSE UNION {
          LET c2 == Append(c1, Call("getKYCStatus", t, <<>>, o2)) IN
          IF o2 # "ok" THEN CatchExpired(s, c2, <<>>, o2)
          ELSE {Res(s, c2, <<"status">>, FALSE)}
               \cup CatchExpired(s, c2, <<>>, "tg")
          : o2 \in ApiOutcomes}
        : o1 \in ApiOutcomes}

CmdLogout(s) ==
  IF ~Has(s, "authToken")
    THEN Reply(s, <<>>, <<>>, "not_logged_in")
    ELSE Reply(EmptySession, <<>>, <<>>, "logged_out")

CmdBalance(s) ==
  IF ~Has(s, "authToken")
    THEN Reply(s, <<>>, <<>>, "login_prompt")
    ELSE LET t == s["authToken"] IN
      UNION {
        LET c1 == <<Call("getWallets", t, <<>>, o1)>> IN
        IF o1 # "ok" THEN CatchExpired(s, c1, <<>>, o1)
        ELSE UNION {
          LET c2 == Append(c1, Call("getWalletBalances", t, <<>>, o2)) IN
          IF o2 # "ok" THEN CatchExpired(s, c2, <<>>, o2)
          ELSE {Res(s, c2, <<"no_wallets">>, FALSE),
                Res(s, c2, <<"balances">>, FALSE)}
               \cup CatchExpired(s, c2, <<>>, "tg")
          : o2 \in ApiOutcomes}
        : o1 \in ApiOutcomes}

CmdDeposit_NoCheck(s) == Reply(s, <<>>, <<>>, "deposit_source_keyboard")

CmdDeposit(s) ==
  IF ~Has(s, "authToken")
    THEN Reply(s, <<>>, <<>>, "login_prompt")
    ELSE Reply(s, <<>>, <<>>, "deposit_source_keyboard")

CmdHistory(s) ==
  IF ~Has(s, "authToken")
    THEN Reply(s, <<>>, <<>>, "login_prompt")
    ELSE LET t == s["authToken"] IN
      UNION {
        LET c1 == <<Call("getTransactionHistory", t, <<>>, o1)>> IN
        IF o1 # "ok" THEN CatchExpired(s, c1, <<>>, o1)
        ELSE {Res(s, c1, <<"no_transactions">>, FALSE),
              Res(s, c1, <<"history">>, FALSE)}
             \cup CatchExpired(s, c1, <<>>, "tg")
        : o1 \in ApiOutcomes}

CmdSend(s) ==
  IF ~Has(s, "authToken")
    THEN Reply(s, <<>>, <<>>, "login_prompt")
    ELSE Reply(s, <<>>, <<>>, "send_keyboard")

CmdWithdraw(s) ==
  IF ~Has(s, "authToken")
    THEN Reply(s, <<>>, <<>>, "login_prompt")
    ELSE Reply(s, <<>>, <<>>, "withdraw_keyboard")

\* the commands registered with bot.command in index.ts
Commands ==
  {"start", "login", "help", "status", "logout", "balance", "deposit",
   "history", "send", "withdraw"}

OnCommand(s, cmd) ==
  CASE cmd = "start"    -> CmdStart(s)
    [] cmd = "login"    -> CmdLogin(s)
    [] cmd = "help"     -> CmdHelp(s)
    [] cmd = "status"   -> CmdStatus(s)
    [] cmd = "logout"   -> CmdLogout(s)
    [] cmd = "balance"  -> CmdBalance(s)
    [] cmd = "deposit"  -> CmdDeposit(s)
    [] cmd = "history"  -> CmdHistory(s)
    [] cmd = "send"     -> CmdSend(s)
    [] cmd = "withdraw" -> CmdWithdraw(s)

(***************************************************************************)
(* Part 6.  Inline-button callbacks                                        *)
(***************************************************************************)
\* action.replace(prefix, '') for data that begins with the prefix
DropPrefix(data, prefix) ==
  IF StartsWith(data, prefix)
    THEN SubSeq(data, Len(prefix) + 1, Len(data))
    ELSE data

SourceCategories ==
  {<<"salary">>, <<"savings">>, <<"lottery">>, <<"investment">>, <<"loan">>,
   <<"business", "income">>, <<"others">>}

\* the session assigned by the matching case of the switch; absent: no case
CallbackSession(s, data) ==
  IF data = <<"send", "email">> THEN
    Put(Put(s, "transferType", "email"), "transferStep", "recipient")
  ELSE IF data = <<"send", "wallet">> THEN
    Put(s, "commandType", "send")
  ELSE IF data = <<"withdraw", "bank">> THEN
    Put(Put(s, "transferType", "bank"), "transferStep", "amount")
  ELSE IF data = <<"withdraw", "wallet">> THEN
    Put(s, "commandType", "withdraw")
  ELSE IF data \in {<<"network", "polygon">>, <<"network", "arbitrum">>,
                    <<"network", "base">>} THEN
    Put(Put(Put(Put(s, "transferType", "wallet"), "transferStep", "address"),
            "network", DropPrefix(data, <<"network">>)), "commandType", "send")
  ELSE IF data = <<"withdraw", "network", "polygon">> THEN
    Put(Put(Put(Put(s, "transferType", "wallet"), "transferStep", "address"),
            "network", DropPrefix(data, <<"withdraw", "network">>)),
        "commandType", "withdraw")
  ELSE IF data \in {<<"deposit", "source">> \o c : c \in SourceCategories} THEN
    Put(Put(s, "depositSourceOfFunds",
            DropPrefix(data, <<"deposit", "source">>)),
        "depositStep", "amount")
  ELSE s

CallbackHasCase(data) ==
  \/ data \in {<<"send", "email">>, <<"send", "wallet">>,
               <<"withdraw", "bank">>, <<"withdraw", "wallet">>,
               <<"network", "polygon">>, <<"network", "arbitrum">>,
               <<"network", "base">>, <<"withdraw", "network", "polygon">>}
  \/ data \in {<<"deposit", "source">> \o c : c \in SourceCategories}

OnCallback(s, data) ==
  IF CallbackHasCase(data)
    THEN {Res(CallbackSession(s, data), <<>>, <<"edited">>, FALSE),
          Res(CallbackSession(s, data), <<>>, <<>>, TRUE)}
    ELSE {Res(s, <<>>, <<>>, FALSE)}


(***************************************************************************)
(* Part 7.  Inputs of the model: the texts a user sends, the button data,  *)
(* and what the Payments API answers                                       *)
(***************************************************************************)
\* the texts of the model: an unknown command that would pass for an e-mail
\* address, a word, an e-mail address, a six-digit code bare and behind a
\* blank, and amounts around the limits
TextInputs ==
  {<<"/", "a", "@", "b", ".", "c">>, <<"a", "b", "c">>, <<"a", "@", "b", ".", "c">>,
   <<"1", "2", "3", "4", "5", "6">>, <<" ", "1", "2", "3", "4", "5", "6">>,
   <<"0">>, <<"0", ".", "5">>, <<"1">>, <<"1", ".", "1">>,
   <<"1", "0", "0">>, <<"1", "5", "0", ".", "5", "5">>}

\* button data: two transfer menus, two deposit categories, and a
\* source-of-funds button of the bank withdrawal keyboard
CallbackInputs ==
  {<<"send", "email">>, <<"withdraw", "bank">>,
   <<"deposit", "source", "salary">>,
   <<"deposit", "source", "business", "income">>,
   <<"source", "investment">>}

Tokens == {"tok1"}
Orgs   == {"org1"}
Sids   == {"sid1"}

\* balance strings the wallet endpoint reports for the default wallet
Balances == {<<"0">>, <<"1", "2", "0">>, <<"1", "0", "0", "0", "0", "0">>}

\* an address of the form the address step accepts: 0x and forty characters
WalletAddress == <<"0", "x">> \o [i \in 1..40 |-> "a"]

\* parseFloat(ctx.message.text.trim()), tabulated over the inputs
AmountOfText ==
  [t \in TextInputs \cup {WalletAddress} |-> parseFloat(Trim(t))]

\* (amount * 10 ** 8).toString(), tabulated over the inputs
WeiOfText ==
  [t \in TextInputs \cup {WalletAddress} |->
     NumberToString(DoubleMulE8(AmountOfText[t]))]

\* parseFloat(usdcBalance), tabulated over the balances
BalanceOf == [b \in Balances |-> parseFloat(b)]

MinDeposit  == 1
MinTransfer == 100
DepositChainId == 1399811149

D_zero        == Zero(FALSE)
D_minDeposit  == FromInt(MinDeposit)
\* a transfer limit as low as the deposit limit
D_minTransfer_AsDeposit == FromInt(MinDeposit)
D_minTransfer == FromInt(MinTransfer)

NotPositive_NoNaN(a) == DoubleLeq(a, D_zero)

\* isNaN(amount) || amount <= 0
NotPositive(a) == isNaN(a) \/ DoubleLeq(a, D_zero)

(***************************************************************************)
(* Part 8.  Free text (bot.on('text'))                                     *)
(***************************************************************************)
\* the message chosen by the catch blocks of the deposit and transfer steps
ErrorTag(out) ==
  CASE out = "e401" -> "session_expired"
    [] out = "e422" -> "invalid_details"
    [] out \in {"e429", "err"} -> "failed"
    [] OTHER        -> "unexpected"

\* the message chosen by the catch blocks of the e-mail and code steps, which
\* single out 429 and 422 and treat a 401 like any other failure
AuthErrorTag(out) ==
  CASE out = "e429" -> "too_many_attempts"
    [] out = "e422" -> "invalid_details"
    [] out \in {"e401", "err"} -> "failed"
    [] OTHER        -> "unexpected"

\* the catch at the end of the text handler; out is the axios outcome, or
\* "tg"/"js" for an error that is not an axios error
OuterCatch(s, calls, replies, out) ==
  LET s1 == IF out = "e401" THEN EmptySession ELSE s
  IN  {Res(Del(s1, TransferClearFields), calls,
           Append(replies, ErrorTag(out)), FALSE),
       Res(s1, calls, replies, TRUE)}

\* a reply inside the outer try only
ReplyInOuter(s, calls, replies, tag) ==
  {Res(s, calls, Append(replies, tag), FALSE)}
  \cup OuterCatch(s, calls, replies, "tg")

\* the catch of the amount step
InnerCatch(s, calls, replies, out) ==
  LET s1 == IF out = "e401" THEN EmptySession ELSE s
  IN  {Res(Del(s1, TransferClearFields), calls,
           Append(replies, ErrorTag(out)), FALSE)}
      \cup OuterCatch(s1, calls, replies, "tg")

\* a reply inside the try of the amount step that is followed by return
ReplyInInner(s, calls, replies, tag) ==
  {Res(s, calls, Append(replies, tag), FALSE)}
  \cup InnerCatch(s, calls, replies, "tg")

TextDeposit(s, text) ==
  LET amount == AmountOfText[text] IN
  IF NotPositive(amount) THEN Reply(s, <<>>, <<>>, "invalid_amount")
  ELSE IF DoubleLess(amount, D_minDeposit)
    THEN Reply(s, <<>>, <<>>, "min_deposit")
  ELSE UNION {
    LET c == <<Call("deposit", TokenOf(s),
                    <<WeiOfText[text], s["depositSourceOfFunds"],
                      DepositChainId>>, o)>>
        s1 == IF o = "e401" THEN EmptySession ELSE s
    IN  IF o = "ok"
          THEN {Res(Del(s, DepositClearFields), c, <<"deposit_ok">>, FALSE),
                Res(Del(s, DepositClearFields), c, <<"unexpected">>, FALSE),
                Res(s, c, <<>>, TRUE)}
          ELSE {Res(Del(s1, DepositClearFields), c, <<ErrorTag(o)>>, FALSE),
                Res(s1, c, <<>>, TRUE)}
    : o \in ApiOutcomes}

\* a code request that does not keep the sid of the answer
CodeRequested_NoSid(s, email, sid) ==
  Put(Put(Put(s, "awaitingEmail", FALSE), "awaitingOTP", TRUE), "email", email)

\* a code request that leaves awaitingEmail as it was
CodeRequested_StillAwaitingEmail(s, email, sid) ==
  Put(Put(Put(s, "awaitingOTP", TRUE), "email", email), "sid", sid)

\* ctx.session = { ...ctx.session, awaitingEmail: false, awaitingOTP: true,
\* email: email, sid: sid }
CodeRequested(s, email, sid) ==
  Put(Put(Put(Put(s, "awaitingEmail", FALSE),
              "awaitingOTP", TRUE), "email", email), "sid", sid)

TextEmail(s, text) ==
  LET email == Trim(text) IN
  IF ~LooksLikeEmail(email) THEN Reply(s, <<>>, <<>>, "invalid_email")
  ELSE UNION {
    LET c == <<Call("requestEmailOTP", NoToken, <<email>>, o)>> IN
    IF o = "ok"
      THEN UNION {
        LET s1 == CodeRequested(s, email, sid)
        IN  {Res(s1, c, <<"enter_otp">>, FALSE),
             Res(Put(s1, "awaitingEmail", FALSE), c, <<"unexpected">>, FALSE),
             Res(s1, c, <<>>, TRUE)}
        : sid \in Sids}
      ELSE {Res(Put(s, "awaitingEmail", FALSE), c, <<AuthErrorTag(o)>>, FALSE),
            Res(s, c, <<>>, TRUE)}
    : o \in ApiOutcomes}

\* a login that keeps the sid of the exchanged code
LoggedIn_KeepSid(s, token, org) ==
  Del(Put(Put(s, "authToken", token), "organizationId", org), {"awaitingOTP"})

\* ctx.session.authToken = token; ctx.session.organizationId =
\* organizationId; delete ctx.session.awaitingOTP; delete ctx.session.sid
LoggedIn(s, token, org) ==
  Del(Put(Put(s, "authToken", token), "organizationId", org),
      {"awaitingOTP", "sid"})

TextOTP(s, text) ==
  LET otp == Trim(text) IN
  IF ~IsSixDigits(otp) THEN Reply(s, <<>>, <<>>, "invalid_otp")
  ELSE UNION {
    LET c == <<Call("authenticateWithOTP", NoToken,
                    <<s["email"], otp, s["sid"]>>, o)>> IN
    IF o = "ok"
      THEN UNION {
        \* the call returned the token and the organization tk
        LET ck == <<CallRet("authenticateWithOTP", NoToken,
                            <<s["email"], otp, s["sid"]>>, o, tk)>>
            s1 == LoggedIn(s, tk[1], tk[2])
        IN  {Res(s1, ck, <<"logged_in">>, FALSE),
             Res(EmptySession, ck, <<"unexpected">>, FALSE),
             Res(s1, ck, <<>>, TRUE)}
        : tk \in Tokens \X Orgs}
      ELSE {Res(EmptySession, c, <<AuthErrorTag(o)>>, FALSE),
            Res(s, c, <<>>, TRUE)}
    : o \in ApiOutcomes}

\* an amount step that sends the transfer a second time
TransferSend_Twice(s, c1, op, args) ==
  UNION {
    LET c3 == c1 \o <<Call(op, TokenOf(s), args, o),
                      Call(op, TokenOf(s), args, o)>> IN
    IF o = "ok"
      THEN {Res(Del(s, TransferClearFields), c3, <<"transfer_ok">>, FALSE)}
      ELSE InnerCatch(s, c3, <<>>, o)
    : o \in ApiOutcomes}

\* the API call of the amount step and what follows it
TransferSend(s, c1, op, args) ==
  UNION {
    LET c2 == Append(c1, Call(op, TokenOf(s), args, o)) IN
    IF o = "ok"
      THEN {Res(Del(s, TransferClearFields), c2, <<"transfer_ok">>, FALSE)}
           \cup InnerCatch(s, c2, <<>>, "tg")
      ELSE InnerCatch(s, c2, <<>>, o)
    : o \in ApiOutcomes}

\* case 'amount', after the balance has been read
TransferAccepted(s, text, c1) ==
  LET wei == WeiOfText[text] IN
  IF Has(s, "transferType") /\ s["transferType"] = "email"
     /\ Has(s, "transferRecipient")
    THEN TransferSend(s, c1, "sendToEmail", <<s["transferRecipient"], wei>>)
  ELSE IF Has(s, "transferType") /\ s["transferType"] = "wallet"
          /\ Has(s, "transferAddress")
    THEN IF ~Has(s, "network")
           THEN ReplyInInner(s, c1, <<>>, "network_not_selected")
         ELSE IF Has(s, "commandType") /\ s["commandType"] = "send"
           THEN TransferSend(s, c1, "sendToWallet",
                             <<s["transferAddress"], wei>>)
         ELSE IF Has(s, "commandType") /\ s["commandType"] = "withdraw"
           THEN TransferSend(s, c1, "withdrawToWallet",
                             <<s["transferAddress"], wei, s["network"]>>)
         ELSE {Res(Del(s, TransferClearFields), c1, <<>>, FALSE)}
  ELSE IF Has(s, "transferType") /\ s["transferType"] = "bank"
    THEN LET s1 == Put(Put(s, "transferAmount", wei),
                       "transferStep", "bank_details")
         IN  ReplyInInner(s1, c1, <<>>, "source_keyboard")
  ELSE {Res(Del(s, TransferClearFields), c1, <<>>, FALSE)}

TextAmount(s, text) ==
  LET amount == AmountOfText[text] IN
  IF NotPositive(amount) THEN ReplyInOuter(s, <<>>, <<>>, "invalid_amount")
  ELSE IF DoubleLess(amount, D_minTransfer)
    THEN ReplyInOuter(s, <<>>, <<>>, "min_transfer")
  ELSE UNION {
    LET c1 == <<Call("getWallets", TokenOf(s), <<>>, o1)>> IN
    IF o1 # "ok" THEN InnerCatch(s, c1, <<>>, o1)
    \* no wallet in the answer: wallets[0] is undefined
    ELSE InnerCatch(s, c1, <<>>, "js")
         \cup UNION {
           LET cb == <<CallRet("getWallets", TokenOf(s), <<>>, o1, b)>> IN
           IF DoubleLess(BalanceOf[b], amount)
             THEN ReplyInInner(s, cb, <<>>, "insufficient_balance")
             ELSE TransferAccepted(s, text, cb)
           : b \in Balances}
    : o1 \in ApiOutcomes}

TextCustomerCountry(s, text) ==
  LET s1    == Put(s, "customerCountry", Trim(text))
      done  == Del(s1, BankClearFields)
      \* a reply of the try or catch block fails: finally, then the outer catch
      fails(c) == OuterCatch(done, c, <<>>, "tg")
  IN  UNION {
    LET c1 == <<Call("getWallets", TokenOf(s), <<>>, o1)>> IN
    IF o1 # "ok"
      THEN {Res(done, c1, <<"bank_failed">>, FALSE)} \cup fails(c1)
      ELSE {Res(done, c1, <<"no_wallet">>, FALSE)} \cup fails(c1)
           \cup (IF ~Has(s1, "sourceOfFunds")
                   THEN {Res(done, c1, <<"no_source">>, FALSE)}
                   ELSE LET c2 == Append(c1,
                              Call("withdrawToBank", TokenOf(s),
                                   <<s1["transferAmount"], s1["sourceOfFunds"],
                                     s1["customerName"], s1["customerEmail"],
                                     s1["customerCountry"]>>, "js"))
                        IN  {Res(done, c2, <<"bank_failed">>, FALSE)}
                            \cup fails(c2))
    : o1 \in ApiOutcomes}

TextTransfer(s, text) ==
  LET step == s["transferStep"] IN
  CASE step = "recipient" ->
         IF ~LooksLikeEmail(Trim(text))
           THEN ReplyInOuter(s, <<>>, <<>>, "invalid_email")
           ELSE ReplyInOuter(
                  Put(Put(s, "transferRecipient", Trim(text)),
                      "transferStep", "amount"),
                  <<>>, <<>>, "enter_amount")
    [] step = "address" ->
         IF ~IsValidAddress(Trim(text))
           THEN ReplyInOuter(s, <<>>, <<>>, "invalid_address")
           ELSE ReplyInOuter(
                  Put(Put(s, "transferAddress", Trim(text)),
                      "transferStep", "amount"),
                  <<>>, <<>>, "enter_amount")
    [] step = "amount" -> TextAmount(s, text)
    [] step = "bank_details" ->
         IF ~Has(s, "transferAmount")
           THEN ReplyInOuter(s, <<>>, <<>>, "amount_not_found")
           \* ctx.callbackQuery is undefined in a text update
           ELSE OuterCatch(s, <<>>, <<>>, "js")
    [] step = "customer_details" ->
         IF ~Has(s, "sourceOfFunds")
           THEN ReplyInOuter(s, <<>>, <<>>, "no_source")
           ELSE ReplyInOuter(
                  Put(Put(s, "customerName", Trim(text)),
                      "transferStep", "customer_email"),
                  <<>>, <<>>, "enter_customer_email")
    [] step = "customer_email" ->
         IF ~Has(s, "customerName")
           THEN ReplyInOuter(s, <<>>, <<>>, "no_name")
         ELSE IF ~LooksLikeEmail(Trim(text))
           THEN ReplyInOuter(s, <<>>, <<>>, "invalid_email")
           ELSE ReplyInOuter(
                  Put(Put(s, "customerEmail", Trim(text)),
                      "transferStep", "customer_country"),
                  <<>>, <<>>, "enter_country")
    [] step = "customer_country" ->
         IF ~Has(s, "customerEmail")
           THEN ReplyInOuter(s, <<>>, <<>>, "no_customer_email")
           ELSE TextCustomerCountry(s, text)
    [] OTHER -> {Res(s, <<>>, <<>>, FALSE)}

\* a text handler that looks at the transfer step before the code step
TextBranch_TransferFirst(s, text) ==
  IF StartsWith(text, <<"/">>) THEN "command"
  ELSE IF Has(s, "depositStep") /\ s["depositStep"] = "amount"
          /\ Has(s, "depositSourceOfFunds") THEN "deposit"
  ELSE IF IsTrue(s, "awaitingEmail") THEN "email"
  ELSE IF Has(s, "transferStep") THEN "transfer"
  ELSE IF IsTrue(s, "awaitingOTP") /\ Has(s, "email") /\ Has(s, "sid")
    THEN "otp"
  ELSE "none"

\* which branch of the text handler takes the message
TextBranch(s, text) ==
  IF StartsWith(text, <<"/">>) THEN "command"
  ELSE IF Has(s, "depositStep") /\ s["depositStep"] = "amount"
          /\ Has(s, "depositSourceOfFunds") THEN "deposit"
  ELSE IF IsTrue(s, "awaitingEmail") THEN "email"
  ELSE IF IsTrue(s, "awaitingOTP") /\ Has(s, "email") /\ Has(s, "sid")
    THEN "otp"
  ELSE IF Has(s, "transferStep") THEN "transfer"
  ELSE "none"

OnText(s, text) ==
  LET br == TextBranch(s, text) IN
  CASE br = "deposit"  -> TextDeposit(s, text)
    [] br = "email"    -> TextEmail(s, text)
    [] br = "otp"      -> TextOTP(s, text)
    [] br = "transfer" -> TextTransfer(s, text)
    [] OTHER           -> {Res(s, <<>>, <<>>, FALSE)}


(***************************************************************************)
(* Part 9.  The update pipeline: PostgresSession around the handlers, and  *)
(* the notification middleware for updates no handler takes                *)
(*                                                                         *)
(* store is the table bot_sessions: per user, no row or a row with the     *)
(* session_data and the age of updated_at (0 = written during the current  *)
(* update; the clock moves on whenever an update arrives).  inflight holds *)
(* the updates being processed, each at its position in PostgresSession:   *)
(* after the SELECT ("loaded"), after next() ("handled"), after the write  *)
(* ("done").  Every update modelled carries a sender (ctx.from.id).        *)
(* Sessions are compared as values; the stringified forms the middleware   *)
(* compares differ exactly when the values differ, because no handler      *)
(* deletes a key and adds it again within one update.                      *)
(* nexts counts the calls of next() PostgresSession has made for the       *)
(* update.  unsubscribed records the channels for which                    *)
(* unsubscribeFromOrganization has returned and subscribeToOrganization    *)
(* has not been called since.                                              *)
(***************************************************************************)
VARIABLES store, inflight, clients, activeSubscriptions, notified, bankStage,
          unsubscribed

vars == <<store, inflight, clients, activeSubscriptions, notified, bankStage,
         unsubscribed>>

Users == {"u1"}

MaxAge     == 1
MaxClients == 2

NoRow == [present |-> FALSE]
Row(data, age) == [present |-> TRUE, data |-> data, age |-> age]

NoRes == [none |-> TRUE]

IdleSlot ==
  [phase |-> "idle", user |-> "nobody", update |-> <<>>,
   loaded |-> EmptySession, loadFailed |-> FALSE, res |-> NoRes,
   wrote |-> "none", stale |-> FALSE, nexts |-> 0]

\* the clock moves on: every row grows older
Older(row) ==
  IF row.present
    THEN Row(row.data, IF row.age < MaxAge THEN row.age + 1 ELSE MaxAge)
    ELSE row

\* const channelName = `private-org-${organizationId}`: one channel per
\* organisation, so channels are named by the organisation
\* tries holds the outcomes of the attempts to deliver the last deposit event
\* the client's handler received; retry: the timer of the second attempt is
\* armed.  resub: the timer of a resubscription is armed; retried: the
\* subscription that is pending or has just failed was sent by that timer.
NewClient(org, chat) ==
  [org |-> org, chat |-> chat, conn |-> "up", sub |-> "pending",
   torn |-> FALSE, reconn |-> FALSE, resub |-> FALSE, retried |-> FALSE,
   tries |-> <<>>, retry |-> FALSE]

\* a teardown that unsubscribes the channel and leaves the connection open
TearDown_UnsubscribeOnly(c) == [c EXCEPT !.sub = "none", !.torn = TRUE]

\* channel.unsubscribe(); pusher.disconnect().  The connection emits
\* 'disconnected' when it leaves another state, and the handler bound to it
\* arms the reconnect timer.
TearDown(c) ==
  [c EXCEPT !.sub = "none", !.conn = "down", !.torn = TRUE,
            !.retried = FALSE,
            !.reconn = (c.conn = "up") \/ c.reconn]

\* subscribeToOrganization: the client list and the map afterwards
SubscribeClients(org, chat) ==
  LET cs == IF org \in DOMAIN activeSubscriptions
              THEN [clients EXCEPT ![activeSubscriptions[org]] = TearDown(@)]
              ELSE clients
  IN  Append(cs, NewClient(org, chat))

\* a map that keeps the entry
SubscribeMap_Keep(org) == activeSubscriptions

\* activeSubscriptions.delete(channelName)
SubscribeMap(org) ==
  [o \in DOMAIN activeSubscriptions \ {org} |-> activeSubscriptions[o]]

Init ==
  /\ store = [u \in Users |-> NoRow]
  /\ inflight = [k \in {1} |-> IdleSlot]
  /\ clients = <<>>
  /\ activeSubscriptions = [o \in {} |-> 0]
  /\ notified = 0
  /\ unsubscribed = {}
  /\ bankStage = 0

\* PostgresSession up to next(): the SELECT succeeds and ctx.session is the
\* row's data or {}, or it fails and the catch block sets ctx.session = {}
Load(k, u) ==
  /\ inflight[k].phase \in {"idle", "done"}
  /\ \E ok \in BOOLEAN :
       inflight' = [inflight EXCEPT ![k] =
         [IdleSlot EXCEPT !.phase = "loaded", !.user = u,
            !.loadFailed = ~ok,
            !.loaded = IF ok /\ store[u].present THEN store[u].data
                       ELSE EmptySession]]
  /\ store' = [v \in Users |-> Older(store[v])]
  /\ UNCHANGED <<clients, activeSubscriptions, notified, bankStage,
                 unsubscribed>>

Handled(k, update, r) ==
  inflight' = [inflight EXCEPT ![k] =
                 [@ EXCEPT !.phase = "handled", !.update = update, !.res = r,
                           !.nexts = 1]]

HandleCommandIn(k, cmds) ==
  /\ inflight[k].phase = "loaded"
  /\ \E cmd \in cmds : \E r \in OnCommand(inflight[k].loaded, cmd) :
       Handled(k, <<"command", cmd>>, r)
  /\ UNCHANGED <<store, clients, activeSubscriptions, notified, unsubscribed>>

HandleTextIn(k, texts) ==
  /\ inflight[k].phase = "loaded"
  /\ \E text \in texts : \E r \in OnText(inflight[k].loaded, text) :
       Handled(k, <<"text", text>>, r)
  /\ UNCHANGED <<store, clients, activeSubscriptions, notified, unsubscribed>>

HandleCallbackIn(k, datas) ==
  /\ inflight[k].phase = "loaded"
  /\ \E data \in datas : \E r \in OnCallback(inflight[k].loaded, data) :
       Handled(k, <<"callback", data>>, r)
  /\ UNCHANGED <<store, clients, activeSubscriptions, notified, unsubscribed>>

\* an update that is neither a text message nor a button press reaches the
\* middleware registered by setupNotifications, which is the last in line
HandleOther(k) ==
  /\ inflight[k].phase = "loaded"
  /\ LET s == inflight[k].loaded IN
       IF Has(s, "organizationId") /\ Has(s, "authToken")
         THEN /\ Len(clients) < MaxClients
              /\ clients' = SubscribeClients(s["organizationId"],
                                             inflight[k].user)
              /\ activeSubscriptions' = SubscribeMap(s["organizationId"])
              /\ unsubscribed' = unsubscribed \ {s["organizationId"]}
         ELSE UNCHANGED <<clients, activeSubscriptions, unsubscribed>>
  /\ Handled(k, <<"other">>, Res(inflight[k].loaded, <<>>, <<>>, FALSE))
  /\ UNCHANGED <<store, notified>>

\* a middleware that writes after every update it loaded and handled
SessionChanged_Always(sl) == ~sl.loadFailed /\ ~sl.res.threw

\* a middleware that compares and writes after the catch block's next() too
SessionChanged_IgnoringLoad(sl) == ~sl.res.threw /\ sl.res.s # sl.loaded

\* the write is reached when the SELECT succeeded and next() returned; it
\* is made when JSON.stringify(ctx.session) !== originalSession
SessionChanged(sl) ==
  ~sl.loadFailed /\ ~sl.res.threw /\ sl.res.s # sl.loaded

\* ctx.session when PostgresSession is left: what the handler left, or {}
\* set by the catch block when next() or the write threw
EndSession(sl) ==
  IF sl.loadFailed THEN sl.res.s
  ELSE IF sl.res.threw \/ sl.wrote = "failed" THEN EmptySession
  ELSE sl.res.s

\* an upsert that keeps the fields of the row the new session does not have
Upserted_Merged(row, s) ==
  IF row.present
    THEN Row([f \in DOMAIN row.data \cup DOMAIN s |->
                IF f \in DOMAIN s THEN s[f] ELSE row.data[f]], 0)
    ELSE Row(s, 0)

\* INSERT ... ON CONFLICT (user_id) DO UPDATE SET session_data = $3,
\* updated_at = CURRENT_TIMESTAMP: the row afterwards, whatever it was
Upserted(row, s) == Row(s, 0)

\* the calls of next() when PostgresSession is left.  The first is made in
\* the try block, or in the catch block when the SELECT threw.  When the
\* first was made in the try block and it or the write threw, the catch
\* block calls next() again; Telegraf's composer rejects a second call, so
\* the handlers do not run again and the rejection leaves the middleware.
NextCalls(sl, wrote) ==
  IF ~sl.loadFailed /\ (sl.res.threw \/ wrote = "failed") THEN 2 ELSE 1

\* a middleware that upserts whatever session it is left with
IsEmptySession_Never(s) == FALSE

\* Object.keys(ctx.session || {}).length === 0
IsEmptySession(s) == DOMAIN s = {}

\* PostgresSession after next().  A write records in the slot (stale)
\* whether the row it found was no longer the one the update had loaded.
Persist(k) ==
  /\ inflight[k].phase = "handled"
  /\ LET sl == inflight[k]
         u  == sl.user
         changed == SessionChanged(sl)
         moved == IF store[u].present THEN store[u].data # sl.loaded
                                      ELSE sl.loaded # EmptySession
     IN  \E ok \in (IF changed THEN BOOLEAN ELSE {TRUE}) :
           IF changed /\ ok
             THEN IF IsEmptySession(sl.res.s)
                    THEN /\ store' = [store EXCEPT ![u] = NoRow]
                         /\ inflight' = [inflight EXCEPT ![k] =
                              [@ EXCEPT !.phase = "done", !.wrote = "deleted",
                                        !.stale = moved]]
                    ELSE /\ store' = [store EXCEPT ![u] =
                                        Upserted(store[u], sl.res.s)]
                         /\ inflight' = [inflight EXCEPT ![k] =
                              [@ EXCEPT !.phase = "done", !.wrote = "upserted",
                                        !.stale = moved]]
             ELSE /\ store' = store
                  /\ inflight' = [inflight EXCEPT ![k] =
                       [@ EXCEPT !.phase = "done",
                          !.wrote = IF changed THEN "failed" ELSE "none",
                          !.nexts = NextCalls(sl, IF changed THEN "failed"
                                                             ELSE "none")]]
  /\ UNCHANGED <<clients, activeSubscriptions, notified, unsubscribed>>

\* how far the last updates have followed the bank withdrawal of a logged-in
\* user: the withdraw_bank button (1), an accepted amount (2), a
\* source-of-funds button (3), a name (4), an e-mail address (5), a
\* country (6).  An update whose session could not be loaded or whose
\* handler threw is not a step of the scenario.
BankStageAfter(stage, sl) ==
  LET kind == sl.update[1]
      arg  == sl.update[2]
      fine == ~sl.loadFailed /\ ~sl.res.threw
  IN  IF ~fine THEN 0
      ELSE IF kind = "callback" /\ arg = <<"withdraw", "bank">>
        THEN IF Has(sl.loaded, "authToken") THEN 1 ELSE 0
      ELSE IF stage = 1 /\ kind = "text" /\ Has(sl.res.s, "transferStep")
        THEN IF sl.res.s["transferStep"] = "bank_details" THEN 2 ELSE 1
      ELSE IF stage = 2 /\ kind = "callback" /\ StartsWith(arg, <<"source">>)
        THEN 3
      ELSE IF stage = 3 /\ kind = "text" THEN 4
      ELSE IF stage = 4 /\ kind = "text" /\ LooksLikeEmail(Trim(arg)) THEN 5
      ELSE IF stage = 5 /\ kind = "text" THEN 6
      ELSE 0

(***************************************************************************)
(* Part 10.  The callbacks of the push service (notifications.ts).  A      *)
(* client is "up" while it is connecting or connected.  What pusher-js     *)
(* does inside connect(), subscribe() and disconnect() is the library's:   *)
(* a reconnecting client subscribes to the channels it still knows, and a  *)
(* channel that was unsubscribed stays known to its client.                *)
(***************************************************************************)
ClientIds == 1..Len(clients)

\* channel.bind('pusher:subscription_succeeded')
SubscriptionSucceeded ==
  \E c \in ClientIds :
    /\ clients[c].conn = "up" /\ clients[c].sub = "pending"
    /\ clients' = [clients EXCEPT ![c].sub = "subscribed",
                                  ![c].retried = FALSE]
    /\ activeSubscriptions' =
         [o \in DOMAIN activeSubscriptions \cup {clients[c].org} |->
            IF o = clients[c].org THEN c ELSE activeSubscriptions[o]]
    /\ UNCHANGED <<store, inflight, notified, bankStage, unsubscribed>>

\* an error handler that removes the entry and arms no timer
SubscriptionError_NoRetry ==
  \E c \in ClientIds :
    /\ clients[c].conn = "up" /\ clients[c].sub = "pending"
    /\ clients' = [clients EXCEPT ![c].sub = "none"]
    /\ activeSubscriptions' = SubscribeMap(clients[c].org)
    /\ UNCHANGED <<store, inflight, notified, bankStage, unsubscribed>>

\* channel.bind('pusher:subscription_error').  The error answers a
\* subscription sent over an open connection, so the handler finds the
\* connection 'connected' and arms the timer.
SubscriptionError ==
  \E c \in ClientIds :
    /\ clients[c].conn = "up" /\ clients[c].sub = "pending"
    /\ clients' = [clients EXCEPT ![c].sub = "none", ![c].resub = TRUE]
    /\ activeSubscriptions' = SubscribeMap(clients[c].org)
    /\ UNCHANGED <<store, inflight, notified, bankStage, unsubscribed>>

\* the timer armed by the subscription_error handler:
\* pusherClient.subscribe(channelName) returns the channel the client
\* already has, handlers included, and sends the subscription again
ResubscribeTimer ==
  \E c \in ClientIds :
    /\ clients[c].resub
    /\ clients' = [clients EXCEPT ![c].resub = FALSE, ![c].retried = TRUE,
                     ![c].sub = IF clients[c].conn = "up" /\ @ = "none"
                                  THEN "pending" ELSE @]
    /\ UNCHANGED <<store, inflight, activeSubscriptions, notified, bankStage,
                   unsubscribed>>

\* the timer armed by the 'disconnected' handler: pusherClient.connect()
ReconnectTimer ==
  \E c \in ClientIds :
    /\ clients[c].reconn
    /\ clients' = [clients EXCEPT ![c].reconn = FALSE, ![c].conn = "up",
                                  ![c].sub = "pending",
                                  ![c].retried = FALSE]
    /\ UNCHANGED <<store, inflight, activeSubscriptions, notified, bankStage,
                   unsubscribed>>

\* a retry by timer for as long as the message does not get through
RetryArmedAfter_UntilSent(n, ok) == ~ok /\ n < 3

\* whether the handler arms the timer after attempt number n with outcome
\* ok: the catch of the first sendMessage does, the catch of the retry logs
RetryArmedAfter(n, ok) == n = 1 /\ ~ok

\* channel.bind('deposit'): one event of the channel reaches every client
\* subscribed to it.  A handler whose payload has no numeric amount throws
\* and sends nothing; otherwise it makes the first attempt, which gets
\* through or fails.  Events are taken to be further apart than the retry
\* delay.
DepositEvent ==
  \E org \in {clients[c].org : c \in ClientIds} :
    LET receivers == {c \in ClientIds : /\ clients[c].org = org
                                        /\ clients[c].conn = "up"
                                        /\ clients[c].sub = "subscribed"}
    IN  /\ receivers # {}
        /\ \A c \in receivers : ~clients[c].retry
        /\ \E valid \in BOOLEAN : \E sent \in SUBSET receivers :
             /\ ~valid => sent = {}
             /\ clients' =
                  [c \in ClientIds |->
                     IF c \in receivers
                       THEN [clients[c] EXCEPT
                               !.tries = IF valid THEN <<c \in sent>>
                                         ELSE <<>>,
                               !.retry = valid
                                         /\ RetryArmedAfter(1, c \in sent)]
                       ELSE clients[c]]
             /\ notified' = Cardinality(sent)
        /\ UNCHANGED <<store, inflight, activeSubscriptions, bankStage,
                     unsubscribed>>

\* the setTimeout of the deposit handler: the second sendMessage
RetryTimer ==
  \E c \in ClientIds :
    /\ clients[c].retry
    /\ \E ok \in BOOLEAN :
         /\ clients' = [clients EXCEPT
              ![c].tries = Append(@, ok),
              ![c].retry = RetryArmedAfter(Len(clients[c].tries) + 1, ok)]
         /\ notified' = notified + (IF ok THEN 1 ELSE 0)
    /\ UNCHANGED <<store, inflight, activeSubscriptions, bankStage,
                     unsubscribed>>

(***************************************************************************)
(* Part 11.  Specifications.  Spec is the update pipeline over all the     *)
(* inputs of Part 7; RelaySpec follows a user who logs in and out and      *)
(* sends unrouted updates, together with the push service; BankSpec        *)
(* follows the bank withdrawal.                                            *)
(***************************************************************************)
LoadSession    == \E k \in DOMAIN inflight : \E u \in Users : Load(k, u)
SaveSession    ==
  \E k \in DOMAIN inflight : Persist(k) /\ UNCHANGED bankStage
HandleCommand  ==
  \E k \in DOMAIN inflight :
    HandleCommandIn(k, Commands) /\ UNCHANGED bankStage
HandleText     ==
  \E k \in DOMAIN inflight :
    HandleTextIn(k, TextInputs) /\ UNCHANGED bankStage
HandleCallback ==
  \E k \in DOMAIN inflight :
    HandleCallbackIn(k, CallbackInputs) /\ UNCHANGED bankStage
HandleUnrouted ==
  \E k \in DOMAIN inflight : HandleOther(k) /\ UNCHANGED bankStage

Next ==
  \/ LoadSession
  \/ HandleCommand
  \/ HandleText
  \/ HandleCallback
  \/ HandleUnrouted
  \/ SaveSession

Spec == Init /\ [][Next]_vars

RelayCommand ==
  \E k \in DOMAIN inflight :
    HandleCommandIn(k, {"login", "logout"}) /\ UNCHANGED bankStage
RelayText ==
  \E k \in DOMAIN inflight :
    HandleTextIn(k, {<<"a", "@", "b", ".", "c">>,
                     <<"1", "2", "3", "4", "5", "6">>})
    /\ UNCHANGED bankStage

RelayNext ==
  \/ LoadSession
  \/ RelayCommand
  \/ RelayText
  \/ HandleUnrouted
  \/ SaveSession
  \/ SubscriptionSucceeded
  \/ SubscriptionError
  \/ ResubscribeTimer
  \/ ReconnectTimer
  \/ DepositEvent
  \/ RetryTimer

RelaySpec == Init /\ [][RelayNext]_vars

BankCommand ==
  \E k \in DOMAIN inflight :
    /\ HandleCommandIn(k, {"login"})
    /\ bankStage' = BankStageAfter(bankStage, inflight'[k])
BankText ==
  \E k \in DOMAIN inflight :
    /\ HandleTextIn(k, {<<"a", "@", "b", ".", "c">>,
                        <<"1", "2", "3", "4", "5", "6">>,
                        <<"1", "5", "0", ".", "5", "5">>, <<"a", "b", "c">>})
    /\ bankStage' = BankStageAfter(bankStage, inflight'[k])
BankCallback ==
  \E k \in DOMAIN inflight :
    /\ HandleCallbackIn(k, {<<"withdraw", "bank">>,
                            <<"source", "investment">>})
    /\ bankStage' = BankStageAfter(bankStage, inflight'[k])

\* a write that fails loses the step the scenario had reached
BankSave ==
  \E k \in DOMAIN inflight :
    /\ Persist(k)
    /\ bankStage' = IF inflight'[k].wrote = "failed" THEN 0 ELSE bankStage

BankNext ==
  \/ LoadSession
  \/ BankCommand
  \/ BankText
  \/ BankCallback
  \/ BankSave

BankSpec == Init /\ [][BankNext]_vars


(***************************************************************************)
(* Part 11b.  Process start and stop (setupNotifications).  ReplaySpec     *)
(* starts the process on a store that holds the rows of two users and      *)
(* follows the push service until a termination signal; UnsubSpec applies  *)
(* unsubscribeFromOrganization to the subscriptions so obtained.           *)
(***************************************************************************)
ReplayUsers == {"u1", "u2"}
ReplayOrgs  == {"org1", "org2"}

\* sessions found in the store at start: one in the middle of a login, two
\* logged in, and two a login left with only one of the two fields
ReplaySessions ==
  {[awaitingEmail |-> TRUE], [authToken |-> "tok1"],
   [organizationId |-> "org1"]}
  \cup {[authToken |-> "tok1", organizationId |-> o] : o \in ReplayOrgs}

ReplayRows == {NoRow} \cup {Row(s, 0) : s \in ReplaySessions}

ReplayInit ==
  /\ store \in [ReplayUsers -> ReplayRows]
  /\ inflight = [k \in {1} |-> [IdleSlot EXCEPT !.phase = "starting"]]
  /\ clients = <<>>
  /\ activeSubscriptions = [o \in {} |-> 0]
  /\ notified = 0
  /\ unsubscribed = {}
  /\ bankStage = 0

\* a replay that takes every session of an organization
Qualifies_AnyOrganization(s) == Has(s, "organizationId")

\* the WHERE clause of the query and the test in the loop
Qualifies(s) == Has(s, "authToken") /\ Has(s, "organizationId")

\* the orders in which a query can return the rows of the users in S
Orderings(S) ==
  {q \in [1..Cardinality(S) -> S] :
     \A i, j \in 1..Cardinality(S) : i # j => q[i] # q[j]}

\* loadAndSubscribeExistingSessions: the query fails and is logged, or
\* subscribeToOrganization is called for the rows in turn.  No callback of
\* the push service runs inside the loop, so activeSubscriptions is empty
\* throughout and no call finds a subscription to tear down.  The chat of
\* a private conversation is the user.
Startup ==
  /\ \A k \in DOMAIN inflight : inflight[k].phase = "starting"
  /\ \E ok \in BOOLEAN :
       /\ inflight' = [k \in DOMAIN inflight |->
                         [IdleSlot EXCEPT !.loadFailed = ~ok]]
       /\ IF ok
            THEN \E q \in Orderings({u \in DOMAIN store :
                                        /\ store[u].present
                                        /\ Qualifies(store[u].data)}) :
                   clients' = [i \in DOMAIN q |->
                                 NewClient(store[q[i]].data["organizationId"],
                                           q[i])]
            ELSE clients' = <<>>
  /\ unsubscribed' = unsubscribed \ {clients'[c].org : c \in DOMAIN clients'}
  /\ UNCHANGED <<store, activeSubscriptions, notified, bankStage>>

\* process.once('SIGINT') / process.once('SIGTERM')
Shutdown ==
  /\ \A k \in DOMAIN inflight : inflight[k].phase # "starting"
  /\ clients' =
       [c \in ClientIds |->
          IF \E o \in DOMAIN activeSubscriptions : activeSubscriptions[o] = c
            THEN TearDown(clients[c]) ELSE clients[c]]
  /\ activeSubscriptions' = [o \in {} |-> 0]
  /\ UNCHANGED <<store, inflight, notified, bankStage, unsubscribed>>

\* unsubscribeFromOrganization(organizationId)
Unsubscribe(org) ==
  /\ IF org \in DOMAIN activeSubscriptions
       THEN /\ clients' = [clients EXCEPT
                             ![activeSubscriptions[org]] = TearDown(@)]
            /\ activeSubscriptions' = SubscribeMap(org)
       ELSE UNCHANGED <<clients, activeSubscriptions>>
  /\ unsubscribed' = unsubscribed \cup {org}
  /\ UNCHANGED <<store, inflight, notified, bankStage>>

UnsubscribeCall == \E org \in ReplayOrgs : Unsubscribe(org)

ReplayNext ==
  \/ Startup
  \/ SubscriptionSucceeded
  \/ SubscriptionError
  \/ ResubscribeTimer
  \/ ReconnectTimer
  \/ DepositEvent
  \/ RetryTimer
  \/ Shutdown

ReplaySpec == ReplayInit /\ [][ReplayNext]_vars

UnsubNext ==
  \/ Startup
  \/ SubscriptionSucceeded
  \/ SubscriptionError
  \/ ResubscribeTimer
  \/ ReconnectTimer
  \/ DepositEvent
  \/ RetryTimer
  \/ UnsubscribeCall

UnsubSpec == ReplayInit /\ [][UnsubNext]_vars

(***************************************************************************)
(* Part 11c.  Two updates of one user in flight at once.  Telegraf hands   *)
(* the updates of one batch to the middleware chain without waiting for    *)
(* one to finish, so the steps of two passes through PostgresSession       *)
(* interleave at every await.                                              *)
(***************************************************************************)
RaceInit ==
  /\ store = [u \in Users |-> NoRow]
  /\ inflight = [k \in {1, 2} |-> IdleSlot]
  /\ clients = <<>>
  /\ activeSubscriptions = [o \in {} |-> 0]
  /\ notified = 0
  /\ unsubscribed = {}
  /\ bankStage = 0

RaceNext ==
  \/ LoadSession
  \/ RelayCommand
  \/ RelayText
  \/ SaveSession

RaceSpec == RaceInit /\ [][RaceNext]_vars

\* Two updates of a logged-in user in flight at once: /logout, and a button
\* of the transfer menu, which changes the session and keeps its token.
\* The rows at the start are the sessions a login with a@b.c leaves.
LogoutRaceInit ==
  /\ store \in [Users ->
        {Row(LoggedIn(CodeRequested([awaitingEmail |-> TRUE],
                                    <<"a", "@", "b", ".", "c">>, sid),
                      tok, org), 0) :
           sid \in Sids, tok \in Tokens, org \in Orgs}]
  /\ inflight = [k \in {1, 2} |-> IdleSlot]
  /\ clients = <<>>
  /\ activeSubscriptions = [o \in {} |-> 0]
  /\ notified = 0
  /\ unsubscribed = {}
  /\ bankStage = 0

RaceCallback ==
  \E k \in DOMAIN inflight :
    HandleCallbackIn(k, {<<"send", "email">>}) /\ UNCHANGED bankStage

LogoutRaceNext ==
  \/ LoadSession
  \/ RelayCommand
  \/ RaceCallback
  \/ SaveSession

LogoutRaceSpec == LogoutRaceInit /\ [][LogoutRaceNext]_vars

(***************************************************************************)
(* Part 11d.  TransferSpec follows a user who logs in and goes through the *)
(* transfer menus: to an e-mail address, to a wallet (send and withdraw),  *)
(* to a bank, and through a deposit.                                       *)
(***************************************************************************)
TransferText ==
  \E k \in DOMAIN inflight :
    HandleTextIn(k, {<<"a", "@", "b", ".", "c">>,
                     <<"1", "2", "3", "4", "5", "6">>,
                     WalletAddress, <<"1", "5", "0", ".", "5", "5">>})
    /\ UNCHANGED bankStage
TransferCallback ==
  \E k \in DOMAIN inflight :
    HandleCallbackIn(k, {<<"send", "email">>, <<"network", "polygon">>,
                         <<"withdraw", "network", "polygon">>,
                         <<"withdraw", "bank">>,
                         <<"deposit", "source", "salary">>})
    /\ UNCHANGED bankStage

TransferNext ==
  \/ LoadSession
  \/ RelayCommand
  \/ TransferText
  \/ TransferCallback
  \/ SaveSession

TransferSpec == Init /\ [][TransferNext]_vars

(***************************************************************************)
(* Part 12.  The claims                                                    *)
(***************************************************************************)
\* the update a slot has handled
Handled_(sl) == sl.phase \in {"handled", "done"}
IsText(sl) == Handled_(sl) /\ sl.update[1] = "text"
IsCommand(sl, cmds) ==
  Handled_(sl) /\ sl.update[1] = "command" /\ sl.update[2] \in cmds
CallsTo(sl, op) == {i \in 1..Len(sl.res.calls) : sl.res.calls[i].op = op}

\* the update was handled without a failure of the store or of a handler
Clean(sl) == ~sl.loadFailed /\ ~sl.res.threw /\ sl.wrote # "failed"

\* C1: whenever the handling of an update whose session was read from the
\* store ends with an empty session, the user has no stored record
\* afterwards.
C1_EmptySessionLeavesNoRecord ==
  \A k \in DOMAIN inflight :
    (/\ inflight[k].phase = "done" /\ ~inflight[k].loadFailed
     /\ EndSession(inflight[k]) = EmptySession
     /\ inflight[k].res.s = EmptySession)
      => ~store[inflight[k].user].present

\* C2 as stated, for the updates handled without a failure: after every
\* update that ends with a non-empty session the stored record holds exactly
\* that session and its timestamp was refreshed by that update.
C2_RecordAlwaysRefreshed ==
  \A k \in DOMAIN inflight :
    (/\ inflight[k].phase = "done" /\ Clean(inflight[k])
     /\ EndSession(inflight[k]) # EmptySession)
      => store[inflight[k].user] = Row(EndSession(inflight[k]), 0)

\* C2 amended: when an update ends with a non-empty session, the record
\* holds exactly that session with a refreshed timestamp if the session was
\* loaded and differs from the loaded one, and otherwise (session unchanged,
\* or the load failed) the record and its timestamp are left as they were;
\* and when no record exists, a load yields the empty session.
C2_RefreshedWhenChanged ==
  [][ /\ \A k \in DOMAIN inflight :
           Persist(k) =>
             LET end == EndSession(inflight'[k])
                 u   == inflight[k].user
             IN  end # EmptySession =>
                   IF ~inflight[k].loadFailed /\ end # inflight[k].loaded
                     THEN store'[u] = Row(end, 0)
                     ELSE store'[u] = store[u]
      /\ \A k \in DOMAIN inflight : \A u \in Users :
           (Load(k, u) /\ ~store[u].present)
             => inflight'[k].loaded = EmptySession ]_vars

\* an update changed a non-empty session, which was written with a fresh
\* timestamp
C2_Witness ==
  \E k \in DOMAIN inflight :
    /\ inflight[k].phase = "done" /\ inflight[k].wrote = "upserted"
    /\ inflight[k].loaded # EmptySession
    /\ store[inflight[k].user] = Row(inflight[k].res.s, 0)

FlowActive(s, flow) ==
  CASE flow = "auth" -> IsTrue(s, "awaitingEmail") \/ IsTrue(s, "awaitingOTP")
    [] flow = "transfer" -> Has(s, "transferStep")
    [] flow = "deposit"  -> Has(s, "depositStep")

AtMostOneFlow(s) ==
  Cardinality({f \in {"auth", "transfer", "deposit"} : FlowActive(s, f)}) <= 1

\* C3: in every session, stored or in a handler's hands, at most one of the
\* authentication, transfer and deposit flows is active.
C3_AtMostOneFlow ==
  /\ \A u \in Users : store[u].present => AtMostOneFlow(store[u].data)
  /\ \A k \in DOMAIN inflight :
       Handled_(inflight[k]) => AtMostOneFlow(inflight[k].res.s)

\* C4: for every channel at most one client that was opened for it has not
\* been torn down, and one deposit event leads to at most one notification.
C4_OneLiveClientPerChannel ==
  /\ \A org \in Orgs :
       Cardinality({c \in ClientIds :
                      clients[c].org = org /\ ~clients[c].torn}) <= 1
  /\ notified <= 1

ClearedFields ==
  {"authToken", "organizationId", "awaitingEmail", "awaitingOTP", "email",
   "sid", "depositStep", "depositSourceOfFunds"}
  \cup TransferClearFields \cup BankClearFields

\* C5: after an update during which the Payments API answered 401 (and
\* nothing else failed), the stored session has no authToken, no
\* organizationId and no field of the authentication, transfer and deposit
\* flows.
C5_ExpiredSessionCleared ==
  \A k \in DOMAIN inflight :
    (/\ inflight[k].phase = "done" /\ Clean(inflight[k])
     /\ \E i \in 1..Len(inflight[k].res.calls) :
          inflight[k].res.calls[i].out = "e401")
      => \/ ~store[inflight[k].user].present
         \/ DOMAIN store[inflight[k].user].data \cap ClearedFields = {}

\* C6: when the country arrives at the end of the bank withdrawal (the
\* withdraw_bank button, an accepted amount, a source-of-funds button, a
\* name, an e-mail address, a country), exactly one withdrawToBank call is
\* made and no transfer field is left in the session.
C6_BankWithdrawalIssuesOneCall ==
  \A k \in DOMAIN inflight :
    (bankStage = 6 /\ Handled_(inflight[k]))
      => /\ Cardinality(CallsTo(inflight[k], "withdrawToBank")) = 1
         /\ DOMAIN inflight[k].res.s
              \cap (TransferClearFields \cup BankClearFields) = {}

\* the decimal literal at the head of t, moved up by eight decimal places,
\* as the digits of an integer (for at most eight fraction digits)
ExactE8(t) ==
  LET s    == TrimStart(t)
      ip   == DigitRun(s, 1)
      fp   == IF Len(s) > Len(ip) /\ s[Len(ip) + 1] = "."
                THEN DigitRun(s, Len(ip) + 2) ELSE <<>>
      all  == ip \o fp \o [i \in 1..(8 - Len(fp)) |-> "0"]
      nz   == {i \in 1..Len(all) : all[i] # "0"}
  IN  IF nz = {} THEN <<"0">> ELSE SubSeq(all, MinOf(nz), Len(all))

\* the double 1
OneUnit == FromInt(1)

\* the amount of a text at the deposit amount step is accepted
DepositAccepted(sl) ==
  /\ IsText(sl) /\ TextBranch(sl.loaded, sl.update[2]) = "deposit"
  /\ ~isNaN(AmountOfText[sl.update[2]])
  /\ ~DoubleLess(AmountOfText[sl.update[2]], OneUnit)

\* C7: an accepted amount a at the deposit amount step (every message to
\* the chat getting through) leads to exactly one deposit call, with the
\* amount a * 10^8 written as a string, the category chosen with the button
\* and chain id 1399811149, and leaves the session without depositStep and
\* depositSourceOfFunds.
C7_DepositCall ==
  \A k \in DOMAIN inflight :
    (DepositAccepted(inflight[k]) /\ ~inflight[k].res.threw) =>
      LET sl == inflight[k] IN
      /\ Len(sl.res.calls) = 1
      /\ sl.res.calls[1].op = "deposit"
      /\ sl.res.calls[1].args =
           <<ExactE8(sl.update[2]), sl.loaded["depositSourceOfFunds"],
             1399811149>>
      /\ DOMAIN sl.res.s \cap {"depositStep", "depositSourceOfFunds"} = {}

\* C8: without an authToken, /status, /balance, /deposit, /history, /send
\* and /withdraw call no API method, send the login prompt and nothing else
\* (nothing at all if the send fails), leave the session as it was loaded and
\* write nothing to the store.
C8_LoginPromptOnly ==
  \A k \in DOMAIN inflight :
    (/\ IsCommand(inflight[k], {"status", "balance", "deposit", "history",
                                "send", "withdraw"})
     /\ ~Has(inflight[k].loaded, "authToken"))
      => /\ inflight[k].res.calls = <<>>
         /\ inflight[k].res.s = inflight[k].loaded
         /\ \/ inflight[k].res.replies = <<"login_prompt">>
            \/ inflight[k].res.threw /\ inflight[k].res.replies = <<>>
         /\ inflight[k].phase = "done" => inflight[k].wrote = "none"

\* /balance from a user whose stored session has no authToken was answered
\* with the login prompt
C8_Witness ==
  \E k \in DOMAIN inflight :
    /\ inflight[k].phase = "done"
    /\ inflight[k].update = <<"command", "balance">>
    /\ inflight[k].loaded # EmptySession
    /\ ~Has(inflight[k].loaded, "authToken")
    /\ inflight[k].res.replies = <<"login_prompt">>

\* the session awaits the one-time code and no earlier branch of the text
\* handler takes the message
AwaitsCode(s) ==
  /\ IsTrue(s, "awaitingOTP") /\ Has(s, "email") /\ Has(s, "sid")
  /\ ~IsTrue(s, "awaitingEmail")
  /\ ~(Has(s, "depositStep") /\ Has(s, "depositSourceOfFunds"))

SixDecimalDigits(t) == Len(t) = 6 /\ \A i \in 1..6 : t[i] \in DigitChars

CodeRejected(sl) ==
  /\ CallsTo(sl, "authenticateWithOTP") = {}
  /\ sl.res.s = sl.loaded
  /\ sl.phase = "done" => sl.wrote = "none"

\* C9 as stated: while the session awaits the one-time code, a text that is
\* not exactly six decimal digits is rejected.
C9_NonSixDigitTextRejected ==
  \A k \in DOMAIN inflight :
    (/\ IsText(inflight[k]) /\ AwaitsCode(inflight[k].loaded)
     /\ ~SixDecimalDigits(inflight[k].update[2]))
      => CodeRejected(inflight[k])

\* C9 amended: while the session awaits the one-time code, a text that is
\* not exactly six decimal digits once the white space around it is removed
\* is rejected: authenticateWithOTP is not called and the session stays as
\* it was.
C9_NonSixDigitTrimmedTextRejected ==
  \A k \in DOMAIN inflight :
    (/\ IsText(inflight[k]) /\ AwaitsCode(inflight[k].loaded)
     /\ ~SixDecimalDigits(Trim(inflight[k].update[2])))
      => CodeRejected(inflight[k])

\* a word sent while the code was awaited was answered with the format
\* message
C9_Witness ==
  \E k \in DOMAIN inflight :
    /\ inflight[k].phase = "done" /\ IsText(inflight[k])
    /\ AwaitsCode(inflight[k].loaded)
    /\ inflight[k].update[2] = <<"a", "b", "c">>
    /\ inflight[k].res.replies = <<"invalid_otp">>

\* C10: at the deposit amount step an input that is not a number, is at
\* most 0 or is below 1 is rejected without an API call and without a change
\* of the session; an input of at least 1 leads to the deposit call.
C10_DepositAmountValidation ==
  \A k \in DOMAIN inflight :
    (IsText(inflight[k])
     /\ TextBranch(inflight[k].loaded, inflight[k].update[2]) = "deposit")
      => IF DepositAccepted(inflight[k])
           THEN /\ Len(inflight[k].res.calls) = 1
                /\ inflight[k].res.calls[1].op = "deposit"
           ELSE /\ inflight[k].res.calls = <<>>
                /\ inflight[k].res.s = inflight[k].loaded
                /\ inflight[k].phase = "done" => inflight[k].wrote = "none"

\* the amount 1 was accepted at the deposit amount step
C10_Witness ==
  \E k \in DOMAIN inflight :
    /\ inflight[k].phase = "done" /\ IsText(inflight[k])
    /\ TextBranch(inflight[k].loaded, inflight[k].update[2]) = "deposit"
    /\ inflight[k].update[2] = <<"1">>
    /\ CallsTo(inflight[k], "deposit") = {1}

\* the text arrives at the amount step of a transfer
AtTransferAmount(sl) ==
  /\ IsText(sl) /\ TextBranch(sl.loaded, sl.update[2]) = "transfer"
  /\ sl.loaded["transferStep"] = "amount"

TransferOps ==
  {"sendToEmail", "sendToWallet", "withdrawToWallet", "withdrawToBank"}

TransferCalls(sl) ==
  {i \in 1..Len(sl.res.calls) : sl.res.calls[i].op \in TransferOps}

\* the double 100
HundredUnits == FromInt(100)

\* a is not a number, a <= 0 or a < 100
BelowTransferLimit(a) ==
  a = NaN \/ DoubleLeq(a, Zero(FALSE)) \/ DoubleLess(a, HundredUnits)

\* the handler read the balance of the default wallet
BalanceRead(sl) ==
  /\ Len(sl.res.calls) >= 1 /\ sl.res.calls[1].op = "getWallets"
  /\ sl.res.calls[1].out = "ok" /\ sl.res.calls[1].ret # <<>>

\* a exceeds the balance that was read
ExceedsBalance(sl) ==
  DoubleLess(parseFloat(sl.res.calls[1].ret), AmountOfText[sl.update[2]])

\* the amount went on: into a transfer call, or into the session of the bank
\* withdrawal
AmountTaken(sl) ==
  \/ TransferCalls(sl) # {}
  \/ /\ Has(sl.res.s, "transferAmount")
     /\ sl.res.s["transferStep"] = "bank_details"

\* a message of the handler could not be sent to the chat
SendFailed(sl) ==
  sl.res.threw \/ \E i \in 1..Len(sl.res.replies) :
                    sl.res.replies[i] = "unexpected"

\* C11 as stated: at the transfer amount step an input that is not a
\* number, is at most 0 or is below 100 is rejected without a transfer call
\* and without a change of the session; an input of at least 100 is accepted
\* when it does not exceed the balance read, and rejected, session unchanged
\* and no transfer call, when it does.
C11_TransferAmountValidation ==
  \A k \in DOMAIN inflight :
    LET sl == inflight[k] IN
    AtTransferAmount(sl) =>
      IF BelowTransferLimit(AmountOfText[sl.update[2]])
        THEN sl.res.calls = <<>> /\ sl.res.s = sl.loaded
      ELSE BalanceRead(sl) =>
        IF ExceedsBalance(sl)
          THEN TransferCalls(sl) = {} /\ sl.res.s = sl.loaded
          ELSE AmountTaken(sl)

\* C11 amended: the same limits decide between rejection and acceptance,
\* and a rejected input leaves the session unchanged when the rejection
\* message reaches the chat; when that message cannot be sent the catch
\* blocks delete the transfer fields (or the handler throws), still without
\* a transfer call, and the same happens to an accepted bank amount whose
\* keyboard message cannot be sent.
C11_TransferAmountLimits ==
  \A k \in DOMAIN inflight :
    LET sl == inflight[k]
        kept == sl.res.s = sl.loaded /\ ~AmountTaken(sl)
        lost == /\ SendFailed(sl) /\ ~AmountTaken(sl)
                /\ sl.res.s \in {sl.loaded, Del(sl.loaded, TransferClearFields)}
    IN
    AtTransferAmount(sl) =>
      IF BelowTransferLimit(AmountOfText[sl.update[2]])
        THEN sl.res.calls = <<>> /\ (kept \/ lost)
      ELSE BalanceRead(sl) =>
        IF ExceedsBalance(sl)
          THEN /\ TransferCalls(sl) = {} /\ Len(sl.res.calls) = 1
               /\ (kept \/ lost)
          ELSE AmountTaken(sl) \/ (lost /\ Len(sl.res.calls) = 1)

\* the amount 150.55 was refused on a balance of 120 and the session kept
C11_Witness ==
  \E k \in DOMAIN inflight :
    LET sl == inflight[k] IN
    /\ AtTransferAmount(sl) /\ BalanceRead(sl)
    /\ sl.update[2] = <<"1", "5", "0", ".", "5", "5">>
    /\ sl.res.calls[1].ret = <<"1", "2", "0">>
    /\ sl.res.replies = <<"insufficient_balance">>
    /\ sl.res.s = sl.loaded

\* the amount strings an update handed on: the amount argument of a deposit
\* or transfer call, and the amount stored for the bank withdrawal
AmountsHandedOn(sl) ==
  {sl.res.calls[i].args[1] :
     i \in {j \in 1..Len(sl.res.calls) : sl.res.calls[j].op = "deposit"}}
  \cup {sl.res.calls[i].args[2] : i \in TransferCalls(sl)}
  \cup (IF AtTransferAmount(sl) /\ Has(sl.res.s, "transferAmount")
          THEN {sl.res.s["transferAmount"]} ELSE {})

\* C12: every amount string handed to the Payments API for an accepted
\* input a (deposit, send to e-mail, bank withdrawal) is the decimal
\* writing of the integer a * 10^8.
C12_AmountIsIntegerString ==
  \A k \in DOMAIN inflight :
    IsText(inflight[k]) =>
      \A w \in AmountsHandedOn(inflight[k]) : w = ExactE8(inflight[k].update[2])

\* slot k takes the step that handles /logout of a logged-in user
LogoutStep(k) ==
  /\ inflight[k].phase = "loaded" /\ inflight'[k].phase = "handled"
  /\ inflight'[k].update = <<"command", "logout">>
  /\ inflight'[k].res.replies = <<"logged_out">>
  /\ Has(inflight[k].loaded, "authToken")
  /\ Has(inflight[k].loaded, "organizationId")

\* C13: when /logout of a logged-in user whose organization has a
\* subscription is handled, the subscription is torn down: the map entry of
\* the channel is removed and its client is unsubscribed and disconnected,
\* so that it relays no later deposit event.
C13_LogoutEndsSubscription ==
  [][ \A k \in DOMAIN inflight :
        LET org == inflight[k].loaded["organizationId"] IN
        (LogoutStep(k) /\ org \in DOMAIN activeSubscriptions)
          => /\ org \notin DOMAIN activeSubscriptions'
             /\ clients'[activeSubscriptions[org]].torn
             /\ clients'[activeSubscriptions[org]].sub = "none" ]_vars

\* the clients opened for a channel that deliver, or will deliver once the
\* push service confirms them, to a chat
LiveClients(org, chat) ==
  {c \in ClientIds : /\ clients[c].org = org /\ clients[c].chat = chat
                     /\ ~clients[c].torn}

\* slot k has finished the update in which the one-time code was accepted
LoggedInBy(sl) ==
  /\ sl.phase = "done" /\ IsText(sl) /\ sl.wrote = "upserted"
  /\ CallsTo(sl, "authenticateWithOTP") # {}
  /\ ~Has(sl.loaded, "authToken")
  /\ Has(sl.res.s, "authToken") /\ Has(sl.res.s, "organizationId")

\* C14: when the update that logged a user in is finished, a client has
\* been opened for the channel of the user's organization, delivering to
\* the user's chat.
C14_LoginOpensSubscription ==
  \A k \in DOMAIN inflight :
    LoggedInBy(inflight[k])
      => LiveClients(inflight[k].res.s["organizationId"],
                     inflight[k].user) # {}

\* C17: for the deposit event a handler received it makes at most two
\* attempts to deliver; the second is made only after the first failed, and
\* after a second failure no timer is armed, so that nothing follows.
C17_AtMostTwoAttempts ==
  \A c \in ClientIds :
    LET tr == clients[c].tries IN
    /\ Len(tr) <= 2
    /\ Len(tr) = 2 => tr[1] = FALSE
    /\ clients[c].retry => tr = <<FALSE>>

\* both attempts of a handler failed and the event was dropped
C17_Witness ==
  \E c \in ClientIds :
    clients[c].tries = <<FALSE, FALSE>> /\ ~clients[c].retry

\* the stored session of user u has both an authToken and an organizationId
LoggedInRow(u) ==
  /\ store[u].present
  /\ {"authToken", "organizationId"} \subseteq DOMAIN store[u].data

C18_UnsubscribeIdempotent ==
  [][ \A org \in ReplayOrgs :
        Unsubscribe(org) =>
          IF org \in DOMAIN activeSubscriptions
            THEN /\ DOMAIN activeSubscriptions'
                      = DOMAIN activeSubscriptions \ {org}
                 /\ \A o \in DOMAIN activeSubscriptions' :
                      activeSubscriptions'[o] = activeSubscriptions[o]
                 /\ clients'[activeSubscriptions[org]].sub = "none"
                 /\ clients'[activeSubscriptions[org]].conn = "down"
                 /\ \A c \in ClientIds :
                      c # activeSubscriptions[org] => clients'[c] = clients[c]
            ELSE UNCHANGED <<store, inflight, clients, activeSubscriptions,
                             notified, bankStage>> ]_vars

\* the subscription of org1 was confirmed and then removed, while that of
\* org2 is still in the map
C18_Witness ==
  /\ DOMAIN store = ReplayUsers
  /\ DOMAIN activeSubscriptions = {"org2"}
  /\ \E c \in ClientIds :
       /\ clients[c].org = "org1" /\ clients[c].torn
       /\ clients[c].sub = "none" /\ clients[c].conn = "down"

\* what a slot's write left in the store
Written(sl) == IF sl.wrote = "deleted" THEN NoRow ELSE Row(sl.res.s, 0)

\* C19: two updates of one user may be in flight together, and nothing
\* orders their writes.  Whenever an update's write is made, the user's row
\* afterwards is exactly the session that update's handler left (no row if
\* it left an empty session), whatever another update wrote after this one
\* loaded: the earlier write is replaced whole, not merged.
C19_LastWriterWins ==
  [][\A k \in DOMAIN inflight :
       (/\ inflight[k].phase = "handled"
        /\ inflight'[k].phase = "done"
        /\ inflight'[k].wrote \in {"upserted", "deleted"})
       => /\ store'[inflight[k].user] = Written(inflight'[k])
          /\ \A j \in DOMAIN inflight \ {k} : inflight'[j] = inflight[j]]_vars

\* two updates of one user are complete, both wrote, the second write found
\* the row changed by the first since its own load, the two wrote different
\* records, and the store holds the second's
C19_Witness ==
  \E k, j \in DOMAIN inflight :
    /\ k # j
    /\ inflight[k].phase = "done" /\ inflight[j].phase = "done"
    /\ inflight[k].user = inflight[j].user
    /\ inflight[k].wrote = "upserted" /\ inflight[k].stale
    /\ inflight[j].wrote \in {"upserted", "deleted"}
    /\ Written(inflight[j]) # Written(inflight[k])
    /\ \E f \in DOMAIN inflight[j].res.s : ~Has(inflight[k].res.s, f)
    /\ store[inflight[k].user] = Written(inflight[k])

\* the update of a slot whose SELECT failed
LoadFailedFor(sl) == sl.phase \in {"loaded", "handled", "done"} /\ sl.loadFailed

\* C20: when the SELECT of an update fails, the handlers receive the update
\* with an empty session, and the pass through the middleware ends without
\* a write: the user's row is what it was.
C20_LoadFailureKeepsRecord ==
  [][\A k \in DOMAIN inflight :
       LoadFailedFor(inflight'[k]) /\ inflight'[k] # inflight[k]
       => /\ inflight'[k].loaded = EmptySession
          /\ inflight'[k].phase = "handled"
               => /\ inflight'[k].update # <<>>
                  /\ inflight'[k].res # NoRes
                  /\ store' = store
          /\ inflight'[k].phase = "done"
               => /\ inflight'[k].wrote = "none"
                  /\ store' = store]_vars

\* an update whose SELECT failed has been answered, its handler left a
\* session that is not empty, and the row the user had is still there
C20_Witness ==
  \E k \in DOMAIN inflight :
    /\ LoadFailedFor(inflight[k]) /\ inflight[k].phase = "done"
    /\ inflight[k].res.replies # <<>>
    /\ inflight[k].res.s # EmptySession
    /\ store[inflight[k].user].present
    /\ store[inflight[k].user].data # inflight[k].res.s

\* the fields of the three flows of the text handler
LoginFields    == {"awaitingEmail", "awaitingOTP", "email", "sid"}
DepositFields  == DepositClearFields
TransferFields == TransferClearFields \cup BankClearFields

FlowFields(branch) ==
  CASE branch = "deposit"  -> DepositFields
    [] branch \in {"email", "otp"} -> LoginFields
    [] branch = "transfer" -> TransferFields
    [] OTHER -> {}

\* the last API call of the handler failed, and not with status 401
FailedNot401(sl) ==
  /\ IsText(sl) /\ sl.res.calls # <<>>
  /\ sl.res.calls[Len(sl.res.calls)].out \in {"e422", "e429", "err"}

\* every field outside F is in the session after the update as it was before
OutsideUntouched(sl, F) ==
  \A f \in (DOMAIN sl.loaded \cup DOMAIN sl.res.s) \ F :
    Has(sl.loaded, f) /\ Has(sl.res.s, f) /\ sl.res.s[f] = sl.loaded[f]

\* C21: when the API call of a step of the text handler fails
\* with something other than a 401, only fields of that step's flow change:
\* authToken, organizationId and the fields of the other flows stay as they
\* were, in every flow.
C21_CleanupIsFlowScoped ==
  \A k \in DOMAIN inflight :
    LET sl == inflight[k] IN
    FailedNot401(sl) =>
      OutsideUntouched(sl, FlowFields(TextBranch(sl.loaded, sl.update[2])))

\* C22: /login leaves the session of a user who has an authToken exactly
\* as it was; for a user without one it sets awaitingEmail to true and
\* changes nothing else (nothing at all when the prompt could not be sent).
C22_LoginCommandEffect ==
  \A k \in DOMAIN inflight :
    LET sl == inflight[k] IN
    IsCommand(sl, {"login"}) =>
      IF Has(sl.loaded, "authToken")
        THEN sl.res.s = sl.loaded
        ELSE /\ OutsideUntouched(sl, {"awaitingEmail"})
             /\ ~sl.res.threw => IsTrue(sl.res.s, "awaitingEmail")
             /\ sl.res.threw => sl.res.s = sl.loaded

\* /login was answered for a user whose earlier login attempt had failed
\* and who has pressed a transfer button: awaitingEmail went from false to
\* true and the transfer fields are still there
C22_Witness ==
  \E k \in DOMAIN inflight :
    LET sl == inflight[k] IN
    /\ IsCommand(sl, {"login"}) /\ ~sl.res.threw
    /\ ~Has(sl.loaded, "authToken")
    /\ Has(sl.loaded, "awaitingEmail") /\ sl.loaded["awaitingEmail"] = FALSE
    /\ Has(sl.loaded, "transferStep")
    /\ IsTrue(sl.res.s, "awaitingEmail")
    /\ Has(sl.res.s, "transferStep")

\* the text went to the code step and the exchange with the API failed
ExchangeFailed(sl) ==
  /\ IsText(sl) /\ TextBranch(sl.loaded, sl.update[2]) = "otp"
  /\ CallsTo(sl, "authenticateWithOTP") # {}
  /\ \A i \in CallsTo(sl, "authenticateWithOTP") : sl.res.calls[i].out # "ok"

\* C23: while a one-time code is awaited, a failure of the exchange of the
\* code, whatever its kind, leaves the session empty.
C23_FailedExchangeEmptiesSession ==
  \A k \in DOMAIN inflight :
    LET sl == inflight[k] IN
    ExchangeFailed(sl) => sl.res.s = EmptySession

\* the handler made exactly one API call, a request for a one-time code,
\* and when it succeeded the session holds the markers of the code step
OneCodeRequest(sl) ==
  /\ Len(sl.res.calls) = 1 /\ sl.res.calls[1].op = "requestEmailOTP"
  /\ sl.res.calls[1].out = "ok"
       => /\ Has(sl.res.s, "awaitingEmail") /\ sl.res.s["awaitingEmail"] = FALSE
          /\ IsTrue(sl.res.s, "awaitingOTP")
          /\ Has(sl.res.s, "email") /\ sl.res.s["email"] = Trim(sl.update[2])
          /\ Has(sl.res.s, "sid")

NothingDone(sl) == sl.res.s = sl.loaded /\ sl.res.calls = <<>>

\* C24 as stated: while awaitingEmail is true and the deposit step does not
\* take the text, a text without '@' or '.' changes nothing and calls
\* nothing, and every text with both makes exactly one code request, after
\* whose success awaitingEmail is false, awaitingOTP is true and email and
\* sid are set.
C24_EmailStep ==
  \A k \in DOMAIN inflight :
    LET sl == inflight[k] IN
    (/\ IsText(sl) /\ IsTrue(sl.loaded, "awaitingEmail")
     /\ TextBranch(sl.loaded, sl.update[2]) # "deposit")
    => IF LooksLikeEmail(sl.update[2])
         THEN OneCodeRequest(sl) ELSE NothingDone(sl)

\* C24, amended: the same for the texts that do not begin with '/'; a text
\* that begins with '/' changes nothing and calls nothing, whatever it
\* contains.
C24_EmailStepExceptSlash ==
  \A k \in DOMAIN inflight :
    LET sl == inflight[k] IN
    (/\ IsText(sl) /\ IsTrue(sl.loaded, "awaitingEmail")
     /\ TextBranch(sl.loaded, sl.update[2]) # "deposit")
    => IF StartsWith(sl.update[2], <<"/">>) THEN NothingDone(sl)
       ELSE IF LooksLikeEmail(sl.update[2])
         THEN OneCodeRequest(sl) ELSE NothingDone(sl)

\* an address was sent while awaitingEmail was true and the code request
\* succeeded
C24_Witness ==
  \E k \in DOMAIN inflight :
    LET sl == inflight[k] IN
    /\ IsText(sl) /\ IsTrue(sl.loaded, "awaitingEmail")
    /\ sl.update[2] = <<"a", "@", "b", ".", "c">>
    /\ Len(sl.res.calls) = 1 /\ sl.res.calls[1].out = "ok"
    /\ IsTrue(sl.res.s, "awaitingOTP") /\ ~IsTrue(sl.res.s, "awaitingEmail")

\* the text went to the code step and the exchange succeeded
ExchangeSucceeded(sl) ==
  /\ IsText(sl) /\ TextBranch(sl.loaded, sl.update[2]) = "otp"
  /\ Len(sl.res.calls) = 1 /\ sl.res.calls[1].op = "authenticateWithOTP"
  /\ sl.res.calls[1].out = "ok"

\* C25 as stated: after a successful exchange of the one-time code the session holds
\* the token and the organization the API returned, awaitingOTP and sid are
\* absent and awaitingEmail is not true.
C25_ExchangeLogsIn ==
  \A k \in DOMAIN inflight :
    LET sl == inflight[k] IN
    ExchangeSucceeded(sl) =>
      /\ Has(sl.res.s, "authToken")
      /\ sl.res.s["authToken"] = sl.res.calls[1].ret[1]
      /\ Has(sl.res.s, "organizationId")
      /\ sl.res.s["organizationId"] = sl.res.calls[1].ret[2]
      /\ ~Has(sl.res.s, "awaitingOTP") /\ ~Has(sl.res.s, "sid")
      /\ ~IsTrue(sl.res.s, "awaitingEmail")

\* C25, amended: after a successful exchange awaitingOTP and sid are absent
\* and awaitingEmail is not true; the session holds the token and the
\* organization the API returned unless the confirmation could not be sent,
\* and is empty when the handler then sent its error message instead.
C25_ExchangeLogsInWhenConfirmed ==
  \A k \in DOMAIN inflight :
    LET sl == inflight[k] IN
    ExchangeSucceeded(sl) =>
      /\ ~Has(sl.res.s, "awaitingOTP") /\ ~Has(sl.res.s, "sid")
      /\ ~IsTrue(sl.res.s, "awaitingEmail")
      /\ ~SendFailed(sl)
           => /\ Has(sl.res.s, "authToken")
              /\ sl.res.s["authToken"] = sl.res.calls[1].ret[1]
              /\ Has(sl.res.s, "organizationId")
              /\ sl.res.s["organizationId"] = sl.res.calls[1].ret[2]
      /\ (SendFailed(sl) /\ ~sl.res.threw) => sl.res.s = EmptySession

\* a code was exchanged, the confirmation was sent, and the session that
\* held the markers of the code step now holds the token
C25_Witness ==
  \E k \in DOMAIN inflight :
    LET sl == inflight[k] IN
    /\ ExchangeSucceeded(sl)
    /\ sl.res.replies = <<"logged_in">>
    /\ Has(sl.loaded, "sid") /\ IsTrue(sl.loaded, "awaitingOTP")
    /\ Has(sl.res.s, "authToken") /\ ~Has(sl.res.s, "sid")

\* C26: at transferStep = bank_details a source-of-funds button
\* (source_<category>) stores the category in sourceOfFunds and moves the
\* flow on to customer_details.
C26_SourceSelectionAdvances ==
  \A k \in DOMAIN inflight :
    LET sl == inflight[k] IN
    (/\ Handled_(sl) /\ sl.update[1] = "callback"
     /\ StartsWith(sl.update[2], <<"source">>)
     /\ Has(sl.loaded, "transferStep")
     /\ sl.loaded["transferStep"] = "bank_details"
     /\ Has(sl.loaded, "transferAmount"))
    => /\ Has(sl.res.s, "sourceOfFunds")
       /\ sl.res.s["sourceOfFunds"] = DropPrefix(sl.update[2], <<"source">>)
       /\ sl.res.s["transferStep"] = "customer_details"

\* the amount a logged-in user sent passed the limit and the balance that
\* was read
AmountAccepted(sl) ==
  /\ AtTransferAmount(sl) /\ Has(sl.loaded, "authToken")
  /\ ~BelowTransferLimit(AmountOfText[sl.update[2]])
  /\ BalanceRead(sl) /\ ~ExceedsBalance(sl)

\* the flow the amount step finds in the session
FlowAtAmount(s) ==
  IF ~Has(s, "transferType") THEN "none"
  ELSE IF s["transferType"] = "email" /\ Has(s, "transferRecipient")
    THEN "email"
  ELSE IF s["transferType"] = "wallet" /\ Has(s, "transferAddress")
          /\ Has(s, "network") /\ Has(s, "commandType")
          /\ s["commandType"] \in {"send", "withdraw"}
    THEN "wallet"
  ELSE IF s["transferType"] = "bank" THEN "bank"
  ELSE "none"

\* C27: once the amount step has accepted an amount, the e-mail and wallet
\* flows call the transfer API and leave none of the seven transfer fields
\* in the session, whether the call succeeded or failed; the bank flow makes
\* no transfer call, stores transferAmount and moves to bank_details.
C27_AcceptedAmountFinalizes ==
  \A k \in DOMAIN inflight :
    LET sl == inflight[k] IN
    AmountAccepted(sl) =>
      /\ FlowAtAmount(sl.loaded) \in {"email", "wallet"}
           => /\ TransferCalls(sl) # {}
              /\ DOMAIN sl.res.s \cap TransferClearFields = {}
      /\ FlowAtAmount(sl.loaded) = "bank"
           => /\ TransferCalls(sl) = {}
              /\ Has(sl.res.s, "transferAmount")
              /\ sl.res.s["transferAmount"] = WeiOfText[sl.update[2]]
              /\ Has(sl.res.s, "transferStep")
              /\ sl.res.s["transferStep"] = "bank_details"

\* the requests of all the calls of a handler: at least (j = 1), at most
\* (j = 2)
RECURSIVE SumRange(_, _)
SumRange(calls, j) ==
  IF calls = <<>> THEN 0
  ELSE RequestRange(Head(calls))[j] + SumRange(Tail(calls), j)

\* the amount of the text passed the limit of the deposit step
DepositPassed(sl) ==
  /\ IsText(sl) /\ TextBranch(sl.loaded, sl.update[2]) = "deposit"
  /\ ~NotPositive(AmountOfText[sl.update[2]])
  /\ ~DoubleLess(AmountOfText[sl.update[2]], D_minDeposit)

\* the amount of the text passed the limit and the balance of the amount step
TransferPassed(sl) ==
  /\ AtTransferAmount(sl)
  /\ ~BelowTransferLimit(AmountOfText[sl.update[2]])
  /\ BalanceRead(sl) /\ ~ExceedsBalance(sl)

AtCountry(sl) ==
  /\ IsText(sl) /\ TextBranch(sl.loaded, sl.update[2]) = "transfer"
  /\ sl.loaded["transferStep"] = "customer_country"
  /\ Has(sl.loaded, "customerEmail")

\* the steps that finish a deposit or a transfer
TerminalStep(sl) ==
  \/ DepositPassed(sl)
  \/ TransferPassed(sl) /\ FlowAtAmount(sl.loaded) \in {"email", "wallet"}
  \/ AtCountry(sl)

CodeOps == {"requestEmailOTP", "authenticateWithOTP"}

\* C28 as stated, for a user who is logged in or logging in: a terminal
\* step of the text handler (an accepted deposit amount, an accepted amount
\* of a transfer to an e-mail address or a wallet, the country of a bank
\* withdrawal) makes exactly one request to the Payments API, and every
\* other text makes none, apart from the request and the exchange of the
\* one-time code.
C28_OneRequestPerTerminalStep ==
  \A k \in DOMAIN inflight :
    LET sl == inflight[k] IN
    (/\ IsText(sl)
     /\ \/ Has(sl.loaded, "authToken")
        \/ TextBranch(sl.loaded, sl.update[2]) \in {"email", "otp"})
    =>
      IF TerminalStep(sl)
        THEN SumRange(sl.res.calls, 1) = 1 /\ SumRange(sl.res.calls, 2) = 1
        ELSE \A i \in 1..Len(sl.res.calls) : sl.res.calls[i].op \in CodeOps

OpsOf(sl) == [i \in 1..Len(sl.res.calls) |-> sl.res.calls[i].op]

\* C28, amended: an accepted deposit amount makes one call, the deposit,
\* which is one request.  The transfer amount step reads the balance for
\* every amount that passes the limit (getWallets, two requests when it
\* succeeds), and an accepted amount of a transfer to an e-mail address or a
\* wallet is followed by exactly one transfer call, three requests in all.
\* The country step reads the balance and calls withdrawToBank at most
\* once.  The e-mail and code steps make at most one call, the request or
\* the exchange of the code; every other text makes no call.
C28_CallsPerStep ==
  \A k \in DOMAIN inflight :
    LET sl == inflight[k]
        br == TextBranch(sl.loaded, sl.update[2])
        ops == OpsOf(sl)
    IN
    IsText(sl) =>
      CASE br = "deposit" ->
             /\ ops \in {<<>>, <<"deposit">>}
             /\ DepositPassed(sl)
                  => /\ ops = <<"deposit">>
                     /\ SumRange(sl.res.calls, 1) = 1
                     /\ SumRange(sl.res.calls, 2) = 1
        [] br = "email" -> ops \in {<<>>, <<"requestEmailOTP">>}
        [] br = "otp"   -> ops \in {<<>>, <<"authenticateWithOTP">>}
        [] br = "transfer" /\ AtTransferAmount(sl) ->
             /\ ops \in {<<>>, <<"getWallets">>}
                        \cup {<<"getWallets", op>> :
                                op \in TransferOps \ {"withdrawToBank"}}
             /\ ~BelowTransferLimit(AmountOfText[sl.update[2]])
                  => ops # <<>>
             /\ (TransferPassed(sl)
                 /\ FlowAtAmount(sl.loaded) \in {"email", "wallet"})
                  => /\ Len(ops) = 2
                     /\ SumRange(sl.res.calls, 1) = 3
                     /\ SumRange(sl.res.calls, 2) = 3
             /\ (TransferPassed(sl)
                 /\ FlowAtAmount(sl.loaded) \notin {"email", "wallet"})
                  => Len(ops) = 1
        [] br = "transfer" /\ AtCountry(sl) ->
             ops \in {<<"getWallets">>, <<"getWallets", "withdrawToBank">>}
        [] OTHER -> ops = <<>>

\* a logged-in user's withdrawal to a wallet: the balance was read and the
\* withdrawal was sent once and succeeded
C28_Witness ==
  \E k \in DOMAIN inflight :
    LET sl == inflight[k] IN
    /\ TransferPassed(sl) /\ Has(sl.loaded, "authToken")
    /\ OpsOf(sl) = <<"getWallets", "withdrawToWallet">>
    /\ sl.res.calls[2].out = "ok"
    /\ sl.res.replies = <<"transfer_ok">>

\* the step is the subscription_error handler of client c
ErrorStepOf(c) ==
  /\ c \in ClientIds /\ Len(clients') = Len(clients)
  /\ clients[c].sub = "pending" /\ clients'[c].sub = "none"
  /\ clients'[c].conn = clients[c].conn /\ clients'[c].torn = clients[c].torn

BearerOps ==
  {"deposit", "getWallets", "sendToEmail", "sendToWallet",
   "withdrawToWallet", "withdrawToBank"}

\* the calls of a handled update that were made with no token in the session
NoTokenCalls(sl) ==
  {i \in 1..Len(sl.res.calls) :
     /\ sl.res.calls[i].op \in BearerOps
     /\ ~Has(sl.loaded, "authToken")}

\* C30: no API call that needs a bearer token (deposit, getWallets,
\* sendToEmail, sendToWallet, withdrawToWallet, withdrawToBank) is made while
\* the session has no authToken, whatever commands, texts and button presses
\* came before.
C30_NoCallWithoutToken ==
  \A k \in DOMAIN inflight :
    LET sl == inflight[k] IN
    sl.phase = "handled" => NoTokenCalls(sl) = {}

\* C31: a client that has been torn down (by unsubscribeFromOrganization, by
\* a subscribeToOrganization that replaces it, or at shutdown) never
\* reconnects: its connection stays closed and the map never holds it again.
C31_TornDownStaysDown ==
  \A c \in ClientIds :
    clients[c].torn
      => /\ clients[c].conn = "down"
         /\ \A o \in DOMAIN activeSubscriptions : activeSubscriptions[o] # c

\* C32: from the return of unsubscribeFromOrganization(organizationId) to
\* the next subscribeToOrganization for it, the map has no entry for the
\* organization's channel, whichever callbacks of a subscription made before
\* arrive in between.
C32_UnsubscribedStaysOut ==
  \A org \in unsubscribed : org \notin DOMAIN activeSubscriptions

\* slot sl holds a finished /logout of a logged-in user whose empty session
\* was persisted
LogoutPersisted(sl) ==
  /\ sl.phase = "done" /\ sl.update = <<"command", "logout">>
  /\ Has(sl.loaded, "authToken") /\ sl.wrote = "deleted"

\* the step is the write of an update in which the one-time code was
\* exchanged for a token
ExchangeWritten(k) ==
  /\ inflight[k].phase = "handled" /\ inflight'[k].phase = "done"
  /\ inflight'[k].wrote = "upserted"
  /\ \E i \in CallsTo(inflight[k], "authenticateWithOTP") :
       inflight[k].res.calls[i].out = "ok"

\* C33: once the write of a logged-in user's /logout is made, the user's
\* row has no authToken until an update that exchanged a one-time code
\* writes one, also when another update of the user was in flight during
\* the logout.
C33_LogoutStaysLoggedOut ==
  [][\A j \in DOMAIN inflight :
       LET u == inflight[j].user IN
       (/\ LogoutPersisted(inflight[j]) /\ inflight'[j] = inflight[j]
        /\ ~(store[u].present /\ Has(store[u].data, "authToken"))
        /\ store'[u].present /\ Has(store'[u].data, "authToken"))
       => \E k \in DOMAIN inflight \ {j} : ExchangeWritten(k)]_vars

\* C34: for each update PostgresSession calls next() at most once, also when
\* the handler throws and when the SELECT or the write fails.
C34_NextCalledAtMostOnce ==
  \A k \in DOMAIN inflight : inflight[k].nexts <= 1

\* the session is at both steps of the login
AtBothLoginSteps(s) == IsTrue(s, "awaitingEmail") /\ IsTrue(s, "awaitingOTP")

\* C35: in no session, stored or in a handler's hands, are awaitingEmail and
\* awaitingOTP both true, whatever /login commands and texts were sent.
C35_OneLoginStep ==
  /\ \A u \in Users : store[u].present => ~AtBothLoginSteps(store[u].data)
  /\ \A k \in DOMAIN inflight :
       Handled_(inflight[k]) => ~AtBothLoginSteps(inflight[k].res.s)

\* the sessions of a state: the rows of the store and, for every update in
\* flight, the session loaded and the session its handler left
SessionsOfState ==
  {store[u].data : u \in {v \in Users : store[v].present}}
  \cup {inflight[k].loaded : k \in DOMAIN inflight}
  \cup {inflight[k].res.s : k \in {j \in DOMAIN inflight : Handled_(inflight[j])}}

\* a six-digit text reaches a session at the code step with no deposit
\* amount and no e-mail address awaited
CodeTextAtCodeStep(sl) ==
  /\ Handled_(sl) /\ IsText(sl)
  /\ IsTrue(sl.loaded, "awaitingOTP")
  /\ IsSixDigits(Trim(sl.update[2]))
  /\ ~IsTrue(sl.loaded, "awaitingEmail")
  /\ ~(Has(sl.loaded, "depositStep") /\ Has(sl.loaded, "depositSourceOfFunds"))

\* C36: in every session awaitingOTP = true comes with email and sid, so
\* that a six-digit text sent then is handled by the exchange of the code
\* (unless a deposit amount or an e-mail address is awaited first).
C36_CodeStepHasEmailAndSid ==
  /\ \A s \in SessionsOfState :
       IsTrue(s, "awaitingOTP") => Has(s, "email") /\ Has(s, "sid")
  /\ \A k \in DOMAIN inflight :
       CodeTextAtCodeStep(inflight[k])
         => /\ OpsOf(inflight[k]) = <<"authenticateWithOTP">>
            /\ inflight[k].res.calls[1].args
                 = <<inflight[k].loaded["email"], Trim(inflight[k].update[2]),
                     inflight[k].loaded["sid"]>>

\* a code sent behind a blank was exchanged although the session was at a
\* step of a transfer as well
C36_Witness ==
  \E k \in DOMAIN inflight :
    /\ CodeTextAtCodeStep(inflight[k])
    /\ Has(inflight[k].loaded, "transferStep")
    /\ inflight[k].update[2] = <<" ", "1", "2", "3", "4", "5", "6">>
    /\ OpsOf(inflight[k]) = <<"authenticateWithOTP">>
    /\ inflight[k].res.calls[1].out = "ok"

\* the flows a text can belong to, from the highest priority to the lowest
FlowOrder == <<"deposit", "email", "otp", "transfer">>

\* the flow is waiting for a text in session s
FlowAwaitsText(s, flow) ==
  CASE flow = "deposit"  -> /\ Has(s, "depositStep") /\ s["depositStep"] = "amount"
                            /\ Has(s, "depositSourceOfFunds")
    [] flow = "email"    -> IsTrue(s, "awaitingEmail")
    [] flow = "otp"      -> IsTrue(s, "awaitingOTP")
    [] flow = "transfer" -> Has(s, "transferStep")

\* the flows that wait for a text, by their places in the order
Waiting(s) == {i \in DOMAIN FlowOrder : FlowAwaitsText(s, FlowOrder[i])}

\* the flow of the highest priority that waits for a text
FirstFlow(s) ==
  IF Waiting(s) = {} THEN "none"
  ELSE FlowOrder[CHOOSE i \in Waiting(s) : \A j \in Waiting(s) : i <= j]

\* the API methods of a flow
FlowOps(flow) ==
  CASE flow = "deposit"  -> {"deposit"}
    [] flow = "email"    -> {"requestEmailOTP"}
    [] flow = "otp"      -> {"authenticateWithOTP"}
    [] flow = "transfer" -> {"getWallets", "sendToEmail", "sendToWallet",
                             "withdrawToWallet", "withdrawToBank"}
    [] OTHER             -> {}

\* the fields of the flows of lower priority; the two steps of the login
\* share their fields
LowerFields(flow) ==
  CASE flow = "deposit" -> LoginFields \cup TransferFields
    [] flow \in {"email", "otp"} -> TransferFields
    [] OTHER -> {}

\* the handler left the fields F as the update found them
Kept(sl, F) ==
  \A f \in F : /\ Has(sl.res.s, f) = Has(sl.loaded, f)
               /\ Has(sl.loaded, f) => sl.res.s[f] = sl.loaded[f]

\* the handler emptied the session: the deposit was answered with 401, or
\* the exchange of the code failed or its confirmation was not delivered
EmptiedWhole(sl, flow) ==
  /\ sl.res.s = EmptySession /\ Len(sl.res.calls) = 1
  /\ \/ flow = "deposit" /\ sl.res.calls[1].out = "e401"
     \/ flow = "otp" /\ sl.res.replies # <<"logged_in">>

\* C37 as stated: a text is taken by one flow, the first that waits for one
\* in the order deposit, e-mail, code, transfer; the handler makes no call
\* of another flow and leaves the fields of the flows after it as they
\* were; and a text that starts with '/' changes nothing.
C37_OneFlowPerText ==
  \A k \in DOMAIN inflight :
    LET sl == inflight[k] IN
    IsText(sl) =>
      LET flow == IF StartsWith(sl.update[2], <<"/">>) THEN "command"
                  ELSE FirstFlow(sl.loaded)
      IN  /\ flow = "command" => sl.res = Res(sl.loaded, <<>>, <<>>, FALSE)
          /\ \A i \in DOMAIN sl.res.calls : sl.res.calls[i].op \in FlowOps(flow)
          /\ Kept(sl, LowerFields(flow))

\* C37, amended: the same, except that the fields of the flows after the
\* one that took the text are lost when the handler empties the whole
\* session: at the deposit step on a 401, and at the code step when the
\* exchange fails or its confirmation cannot be delivered.
C37_OneFlowPerTextOrEmptied ==
  \A k \in DOMAIN inflight :
    LET sl == inflight[k] IN
    IsText(sl) =>
      LET flow == IF StartsWith(sl.update[2], <<"/">>) THEN "command"
                  ELSE FirstFlow(sl.loaded)
      IN  /\ flow = "command" => sl.res = Res(sl.loaded, <<>>, <<>>, FALSE)
          /\ \A i \in DOMAIN sl.res.calls : sl.res.calls[i].op \in FlowOps(flow)
          /\ Kept(sl, LowerFields(flow)) \/ EmptiedWhole(sl, flow)

\* a deposit amount was accepted while a code and a transfer amount were
\* awaited as well, and their fields are as before
C37_Witness ==
  \E k \in DOMAIN inflight :
    LET sl == inflight[k] IN
    /\ IsText(sl) /\ FirstFlow(sl.loaded) = "deposit"
    /\ IsTrue(sl.loaded, "awaitingOTP") /\ Has(sl.loaded, "transferStep")
    /\ OpsOf(sl) = <<"deposit">> /\ sl.res.calls[1].out = "ok"
    /\ sl.res.replies = <<"deposit_ok">>
    /\ Kept(sl, LoginFields \cup TransferFields)
    /\ ~Has(sl.res.s, "depositStep")

\* C38: no row of the store holds an empty session: a write of the
\* middleware is a DELETE when the session is empty and an upsert of a
\* session with at least one key otherwise.
C38_NoEmptyRow ==
  /\ \A u \in DOMAIN store : store[u].present => DOMAIN store[u].data # {}
  /\ \A k \in DOMAIN inflight :
       /\ inflight[k].wrote = "upserted" => DOMAIN inflight[k].res.s # {}
       /\ inflight[k].wrote = "deleted" => DOMAIN inflight[k].res.s = {}

\* a text emptied a session that was stored, and the row is gone
C38_Witness ==
  \E k \in DOMAIN inflight :
    /\ IsText(inflight[k]) /\ inflight[k].phase = "done"
    /\ inflight[k].loaded # EmptySession /\ inflight[k].res.s = EmptySession
    /\ inflight[k].wrote = "deleted" /\ ~inflight[k].stale
    /\ ~store[inflight[k].user].present
====
